---- MODULE Spec2Model ----
(***************************************************************************)
(* UniversalFingerprint: the device facade (UniversalFingerprint.cpp), its *)
(* slot occupancy cache and the capacity detector (UF_SensorDetector.cpp), *)
(* run against a fingerprint module whose template store answers the probe *)
(* getTemplateCount(id), storeModel(id) and deleteModel(id).               *)
(***************************************************************************)
EXTENDS Integers, Naturals, Sequences, FiniteSets, TLC

\* ------------------------------------------------------------------ bounds
\* facade calls made in one behaviour
MaxOps == 3
\* the low slot ids the caller passes to enroll / deleteTemplate, and that a
\* sparsely filled device holds at power-up
MaxSmallId == 2

\* ------------------------------------------------- UF_Common.h enumerations
UF_SENSOR_AS608 == "UF_SENSOR_AS608"
UF_SENSOR_R307 == "UF_SENSOR_R307"
UF_SENSOR_GT511C3 == "UF_SENSOR_GT511C3"
UF_SENSOR_ZFM60 == "UF_SENSOR_ZFM60"
UF_SENSOR_ZFM20 == "UF_SENSOR_ZFM20"
UF_SENSOR_AUTO == "UF_SENSOR_AUTO"

UF_SensorType ==
    {UF_SENSOR_AS608, UF_SENSOR_R307, UF_SENSOR_GT511C3, UF_SENSOR_ZFM60,
     UF_SENSOR_ZFM20, UF_SENSOR_AUTO}

UF_OK == "UF_OK"
UF_ERROR_COMM == "UF_ERROR_COMM"
UF_ERROR_NO_SENSOR == "UF_ERROR_NO_SENSOR"
UF_ERROR_INVALID_ID == "UF_ERROR_INVALID_ID"
UF_ERROR_SLOT_FULL == "UF_ERROR_SLOT_FULL"
UF_ERROR_NO_FINGER == "UF_ERROR_NO_FINGER"
UF_ERROR_IMAGE_MESS == "UF_ERROR_IMAGE_MESS"
UF_ERROR_FEATURE_FAIL == "UF_ERROR_FEATURE_FAIL"
UF_ERROR_IMAGE_FAIL == "UF_ERROR_IMAGE_FAIL"
UF_ERROR_DUPLICATE_ID == "UF_ERROR_DUPLICATE_ID"
UF_ERROR_INVALID_PARAM == "UF_ERROR_INVALID_PARAM"
UF_ERROR_TIMEOUT == "UF_ERROR_TIMEOUT"
UF_ERROR_SENSOR_BUSY == "UF_ERROR_SENSOR_BUSY"
UF_ERROR_PACKET == "UF_ERROR_PACKET"
UF_ERROR_NOT_ENROLLED == "UF_ERROR_NOT_ENROLLED"
UF_ERROR_NOT_SUPPORTED == "UF_ERROR_NOT_SUPPORTED"

UF_ErrorCode ==
    {UF_OK, UF_ERROR_COMM, UF_ERROR_NO_SENSOR, UF_ERROR_INVALID_ID,
     UF_ERROR_SLOT_FULL, UF_ERROR_TIMEOUT, UF_ERROR_SENSOR_BUSY,
     UF_ERROR_PACKET, UF_ERROR_NOT_ENROLLED, UF_ERROR_NO_FINGER,
     UF_ERROR_IMAGE_MESS, UF_ERROR_FEATURE_FAIL, UF_ERROR_IMAGE_FAIL,
     UF_ERROR_DUPLICATE_ID, UF_ERROR_NOT_SUPPORTED, UF_ERROR_INVALID_PARAM}

\* no UF_ErrorCode: the operation returns another type (bool, int16_t)
UF_NONE == "UF_NONE"

\* ------------------------------------ vendor status codes used by the code
FINGERPRINT_OK == "FINGERPRINT_OK"
FINGERPRINT_NOFINGER == "FINGERPRINT_NOFINGER"
FINGERPRINT_IMAGEFAIL == "FINGERPRINT_IMAGEFAIL"
FINGERPRINT_IMAGEMESS == "FINGERPRINT_IMAGEMESS"
FINGERPRINT_PACKETRECIEVEERR == "FINGERPRINT_PACKETRECIEVEERR"
FINGERPRINT_FEATUREFAIL == "FINGERPRINT_FEATUREFAIL"
FINGERPRINT_INVALIDIMAGE == "FINGERPRINT_INVALIDIMAGE"
FINGERPRINT_ENROLLMISMATCH == "FINGERPRINT_ENROLLMISMATCH"
FINGERPRINT_BADLOCATION == "FINGERPRINT_BADLOCATION"
FINGERPRINT_DBRANGEFAIL == "FINGERPRINT_DBRANGEFAIL"
FINGERPRINT_UPLOADFEATUREFAIL == "FINGERPRINT_UPLOADFEATUREFAIL"
FINGERPRINT_PACKETRESPONSEFAIL == "FINGERPRINT_PACKETRESPONSEFAIL"
FINGERPRINT_UPLOADFAIL == "FINGERPRINT_UPLOADFAIL"
FINGERPRINT_DELETEFAIL == "FINGERPRINT_DELETEFAIL"
FINGERPRINT_DBCLEARFAIL == "FINGERPRINT_DBCLEARFAIL"
FINGERPRINT_PASSFAIL == "FINGERPRINT_PASSFAIL"
FINGERPRINT_INVALIDREG == "FINGERPRINT_INVALIDREG"
FINGERPRINT_FLASHERR == "FINGERPRINT_FLASHERR"
FINGERPRINT_NOTFOUND == "FINGERPRINT_NOTFOUND"
\* a uint8_t status that is none of the case labels of _convertAdafruitError
FINGERPRINT_UNLISTED == "FINGERPRINT_UNLISTED"
\* no vendor status: the call issued no command that answers one
NO_STATUS == "none"

\* the case labels of _convertAdafruitError
CaseLabels ==
    {FINGERPRINT_OK, FINGERPRINT_NOFINGER, FINGERPRINT_IMAGEFAIL,
     FINGERPRINT_IMAGEMESS, FINGERPRINT_PACKETRECIEVEERR,
     FINGERPRINT_FEATUREFAIL, FINGERPRINT_INVALIDIMAGE,
     FINGERPRINT_ENROLLMISMATCH, FINGERPRINT_BADLOCATION,
     FINGERPRINT_DBRANGEFAIL, FINGERPRINT_UPLOADFEATUREFAIL,
     FINGERPRINT_PACKETRESPONSEFAIL, FINGERPRINT_UPLOADFAIL,
     FINGERPRINT_DELETEFAIL, FINGERPRINT_DBCLEARFAIL, FINGERPRINT_PASSFAIL,
     FINGERPRINT_INVALIDREG, FINGERPRINT_FLASHERR}

\* a translator whose default branch reports success
ConvertAdafruitError_DefaultOK(error) ==
    IF error \in CaseLabels \ {FINGERPRINT_OK} THEN UF_ERROR_COMM ELSE UF_OK

\* UniversalFingerprint::_convertAdafruitError
ConvertAdafruitError(error) ==
    CASE error = FINGERPRINT_OK -> UF_OK
      [] error = FINGERPRINT_NOFINGER -> UF_ERROR_NO_FINGER
      [] error = FINGERPRINT_IMAGEFAIL -> UF_ERROR_IMAGE_FAIL
      [] error = FINGERPRINT_IMAGEMESS -> UF_ERROR_IMAGE_MESS
      [] error = FINGERPRINT_PACKETRECIEVEERR -> UF_ERROR_COMM
      [] error = FINGERPRINT_FEATUREFAIL -> UF_ERROR_FEATURE_FAIL
      [] error = FINGERPRINT_INVALIDIMAGE -> UF_ERROR_IMAGE_FAIL
      [] error = FINGERPRINT_ENROLLMISMATCH -> UF_ERROR_FEATURE_FAIL
      [] error = FINGERPRINT_BADLOCATION -> UF_ERROR_INVALID_ID
      [] error = FINGERPRINT_DBRANGEFAIL -> UF_ERROR_INVALID_ID
      [] error = FINGERPRINT_UPLOADFEATUREFAIL -> UF_ERROR_FEATURE_FAIL
      [] error = FINGERPRINT_PACKETRESPONSEFAIL -> UF_ERROR_COMM
      [] error = FINGERPRINT_UPLOADFAIL -> UF_ERROR_COMM
      [] error = FINGERPRINT_DELETEFAIL -> UF_ERROR_COMM
      [] error = FINGERPRINT_DBCLEARFAIL -> UF_ERROR_COMM
      [] error = FINGERPRINT_PASSFAIL -> UF_ERROR_COMM
      [] error = FINGERPRINT_INVALIDREG -> UF_ERROR_INVALID_PARAM
      [] error = FINGERPRINT_FLASHERR -> UF_ERROR_COMM
      [] OTHER -> UF_ERROR_COMM

\* ------------------------------------------------ sensor capabilities table
\* SENSOR_DB, in table order; the last row is the AUTO terminator
SENSOR_DB ==
    << [type |-> UF_SENSOR_AS608, capacity |-> 162],
       [type |-> UF_SENSOR_R307, capacity |-> 1000],
       [type |-> UF_SENSOR_GT511C3, capacity |-> 200],
       [type |-> UF_SENSOR_ZFM60, capacity |-> 300],
       [type |-> UF_SENSOR_ZFM20, capacity |-> 256],
       [type |-> UF_SENSOR_AUTO, capacity |-> 0] >>

\* for (const auto& info : SENSOR_DB) if (info.type == t) { _capacity = info.capacity; break; }
\* cur is the value _capacity keeps when no row matches
LookupCapacity(t, cur) ==
    LET rows == {i \in 1..Len(SENSOR_DB) : SENSOR_DB[i].type = t}
    IN  IF rows = {} THEN cur
        ELSE SENSOR_DB[CHOOSE i \in rows : \A j \in rows : i <= j].capacity

\* the capacities of the cataloged profiles
CatalogCaps == {SENSOR_DB[i].capacity : i \in 1..(Len(SENSOR_DB) - 1)}

\* ------------------------------------------------------------------ state
VARIABLES
    ctorType,         \* the sensorType argument the facade was constructed with
    sensorType,       \* _sensorType
    capacity,         \* _capacity
    enrolledCount,    \* _enrolledCount (uint16_t)
    initialized,      \* _initialized
    databaseScanned,  \* _databaseScanned
    allocated,        \* _slotOccupancy != nullptr
    slotOccupancy,    \* _slotOccupancy, a bool[_capacity] once allocated: the
                      \* set of ids whose entry _slotOccupancy[id - 1] is true
    devStore,         \* the module: ids whose probe answers FINGERPRINT_OK
    modelDevice,      \* every storeModel / deleteModel so far answered OK
                      \* and every probe of a scan reported the slot's state
    allSuccess,       \* every enroll / deleteTemplate / clearDatabase call so
                      \* far returned UF_OK
    lastOp,           \* the facade call made last
    lastId,           \* its id argument
    lastCode,         \* its UF_ErrorCode result
    lastInt,          \* its integer result (scanDatabase)
    lastBool,         \* its bool result (begin, getDatabaseStats)
    lastVendor,       \* the vendor status the last command it issued answered
    lastStats,        \* the UF_DatabaseStats it filled in (getDatabaseStats)
    devCalls,         \* the device calls it issued, in order
    lastCall,         \* the inputs of the call beside its id: numScans, the
                      \* fault the module answers clearDatabase with
    before,           \* the cache as it was when the call was made, and the
                      \* call made before it
    lastCapture,      \* identify: the timeout argument, the wall-clock time
                      \* the call waited, what the module answered and the
                      \* confidence stored for the caller
    mm,               \* a UF_MemoryManager: _capacity, _enrolledCount,
                      \* _slotMap != nullptr, the ids whose _slotMap entry is
                      \* true, and the module behind its _finger
    mmCall,           \* the last call on the memory manager, its result, and
                      \* whether it repeats the call before it
    other,            \* the members of a second UniversalFingerprint object,
                      \* the one the caller is not calling at the moment
    nOps              \* facade calls made so far

cache == <<capacity, enrolledCount, databaseScanned, allocated, slotOccupancy>>

vars == <<ctorType, sensorType, capacity, enrolledCount, initialized,
          databaseScanned, allocated, slotOccupancy, devStore, modelDevice,
          allSuccess, lastOp, lastId, lastCode, lastInt, lastBool,
          lastVendor, lastStats, devCalls, lastCall, before, lastCapture, mm, mmCall, other,
          nOps>>

Uint16(n) == n % 65536

\* The device-call log of one facade call is a sequence of entries
\* <<name, from, to>>: the calls name(from), name(from + 1), ..., name(to)
\* issued one after the other (no call when to < from).
Call(name, arg) == <<name, arg, arg>>

\* the calls name(from) .. name(to) of a loop over ascending ids
CallRun(name, from, to) == IF to < from THEN <<>> ELSE << <<name, from, to>> >>

\* ------------------------------------------------------------- the module
\* _finger->getTemplateCount(id): the probe primitive
GetTemplateCount(dev, id) ==
    IF id \in dev THEN FINGERPRINT_OK ELSE FINGERPRINT_BADLOCATION

\* the probe over the serial link: a link that is down answers a packet error
Probe(dev, id, linkUp) ==
    IF linkUp THEN GetTemplateCount(dev, id) ELSE FINGERPRINT_PACKETRECIEVEERR

\* the module's store after storeModel(id) answered `code`
StoreModel(dev, id, code) == IF code = FINGERPRINT_OK THEN dev \cup {id} ELSE dev

\* the module's store after deleteModel(id) answered `code`
DeleteModel(dev, id, code) == IF code = FINGERPRINT_OK THEN dev \ {id} ELSE dev

\* -------------------------------------------------------- UF_SensorDetector
\* UF_SensorDetector::_testSlot
TestSlot(dev, id) == GetTemplateCount(dev, id) = FINGERPRINT_OK

\* UF_SensorDetector::detectByParameters: every path returns UF_SENSOR_AUTO
DetectByParameters(param) == UF_SENSOR_AUTO

\* detectByCapacity's else-if chain: the index probed and the type returned
DetectOrder ==
    << [id |-> 1000, type |-> UF_SENSOR_R307],
       [id |-> 300, type |-> UF_SENSOR_ZFM60],
       [id |-> 256, type |-> UF_SENSOR_ZFM20],
       [id |-> 200, type |-> UF_SENSOR_GT511C3],
       [id |-> 162, type |-> UF_SENSOR_AS608] >>

\* the result of walking the chain `order`: the first accepted index wins,
\* later indices are not probed; UF_SENSOR_AUTO when none is accepted
WalkChain(order, dev) ==
    LET hits == {i \in 1..Len(order) : TestSlot(dev, order[i].id)}
        first == IF hits = {} THEN Len(order)
                 ELSE CHOOSE i \in hits : \A j \in hits : i <= j
    IN  [type |-> IF hits = {} THEN UF_SENSOR_AUTO ELSE order[first].type,
         calls |-> [i \in 1..first |-> Call("getTemplateCount", order[i].id)]]

\* a detector that probes the capacities in ascending order
DetectByCapacity_Ascending(dev) ==
    WalkChain([i \in 1..Len(DetectOrder) |->
                  DetectOrder[Len(DetectOrder) + 1 - i]], dev)

\* a detector that probes every cataloged capacity before it decides
DetectByCapacity_ProbesAll(dev) ==
    [type |-> WalkChain(DetectOrder, dev).type,
     calls |-> [i \in 1..Len(DetectOrder) |->
                   Call("getTemplateCount", DetectOrder[i].id)]]

\* UF_SensorDetector::detectByCapacity
DetectByCapacity(dev) == WalkChain(DetectOrder, dev)

\* UF_SensorDetector::detect: the type, _detectedCapacity and the device calls
Detect(dev, param) ==
    LET byParam == DetectByParameters(param)
        byCap == DetectByCapacity(dev)
        t == IF byParam = UF_SENSOR_AUTO THEN byCap.type ELSE byParam
    IN  [type |-> t,
         detectedCapacity |->
            CASE t = UF_SENSOR_AS608 -> 162
              [] t = UF_SENSOR_R307 -> 1000
              [] t = UF_SENSOR_GT511C3 -> 200
              [] t = UF_SENSOR_ZFM60 -> 300
              [] t = UF_SENSOR_ZFM20 -> 256
              [] OTHER -> 162,
         calls |-> <<Call("getParameters", 0)>> \o
                   (IF byParam = UF_SENSOR_AUTO THEN byCap.calls ELSE <<>>)]

\* ------------------------------------------------------ slot occupancy cache
\* memset(_slotOccupancy, 0, ...): no entry is true
Zeroed == {}

\* _validateID without its lower bound
ValidateID_NoLowerBound(id, cap) == id <= cap

\* UniversalFingerprint::_validateID
ValidateID(id, cap) == id >= 1 /\ id <= cap

\* a scanDatabase that does not mark the cache scanned
ScanDatabaseOp_NoScannedFlag(init, alloc, occ, cap, cnt, scanned, dev, linkUp) ==
    IF ~init \/ ~alloc
    THEN [ret |-> -1, occ |-> occ, cnt |-> cnt, scanned |-> scanned,
          calls |-> <<>>, last |-> NO_STATUS]
    ELSE LET occ2 == {i \in 1..cap :
                         Probe(dev, i, linkUp) = FINGERPRINT_OK}
             count == Cardinality(occ2)
         IN  [ret |-> count, occ |-> occ2, cnt |-> count,
              scanned |-> scanned,
              calls |-> CallRun("getTemplateCount", 1, cap),
              last |-> IF cap >= 1 THEN Probe(dev, cap, linkUp)
                       ELSE NO_STATUS]

\* UniversalFingerprint::scanDatabase, as a function of the fields it reads:
\* the return value, the fields it writes, the probes it issues and the
\* answer of the last one
ScanDatabaseOp(init, alloc, occ, cap, cnt, scanned, dev, linkUp) ==
    IF ~init \/ ~alloc
    THEN [ret |-> -1, occ |-> occ, cnt |-> cnt, scanned |-> scanned,
          calls |-> <<>>, last |-> NO_STATUS]
    ELSE LET occ2 == {i \in 1..cap :
                         Probe(dev, i, linkUp) = FINGERPRINT_OK}
             count == Cardinality(occ2)
         IN  [ret |-> count, occ |-> occ2, cnt |-> count, scanned |-> TRUE,
              calls |-> CallRun("getTemplateCount", 1, cap),
              last |-> IF cap >= 1 THEN Probe(dev, cap, linkUp)
                       ELSE NO_STATUS]

\* UniversalFingerprint::isSlotOccupied
IsSlotOccupiedOp(scanned, occ, cap, id) ==
    IF ~scanned \/ id < 1 \/ id > cap THEN FALSE ELSE id \in occ

\* isSlotOccupied without the upper bound of its guard
IsSlotOccupiedReads_NoUpperBound(scanned, cap, id) ==
    IF ~scanned \/ id < 1 THEN {} ELSE {id - 1}

\* UniversalFingerprint::isSlotOccupied: the indices of _slotOccupancy it reads
IsSlotOccupiedReads(scanned, cap, id) ==
    IF ~scanned \/ id < 1 \/ id > cap THEN {} ELSE {id - 1}

\* findEmptySlot without its check of _databaseScanned
FindEmptySlotOp_NoScanCheck(scanned, occ, cap, start) ==
    IF start < 1 \/ start > cap THEN 0
    ELSE IF \A i \in start..cap : i \in occ THEN 0
    ELSE CHOOSE i \in start..cap :
            i \notin occ /\ \A j \in start..(i - 1) : j \in occ

\* UniversalFingerprint::findEmptySlot
FindEmptySlotOp(scanned, occ, cap, start) ==
    IF ~scanned \/ start < 1 \/ start > cap THEN 0
    ELSE IF \A i \in start..cap : i \in occ THEN 0
    ELSE CHOOSE i \in start..cap :
            i \notin occ /\ \A j \in start..(i - 1) : j \in occ

\* findLastEmptySlot without its check of _databaseScanned
FindLastEmptySlotOp_NoScanCheck(scanned, occ, cap) ==
    IF \A i \in 1..cap : i \in occ THEN 0
    ELSE CHOOSE i \in 1..cap :
            i \notin occ /\ \A j \in (i + 1)..cap : j \in occ

\* a findLastEmptySlot that searches from the first slot
FindLastEmptySlotOp_FromFront(scanned, occ, cap) ==
    FindEmptySlotOp(scanned, occ, cap, 1)

\* UniversalFingerprint::findLastEmptySlot
FindLastEmptySlotOp(scanned, occ, cap) ==
    IF ~scanned THEN 0
    ELSE IF \A i \in 1..cap : i \in occ THEN 0
    ELSE CHOOSE i \in 1..cap :
            i \notin occ /\ \A j \in (i + 1)..cap : j \in occ

\* a getDatabaseStats that never scans
GetDatabaseStatsOp_NeverScans(init, alloc, occ, cap, cnt, scanned, dev, linkUp) ==
    [totalSlots |-> cap,
     occupiedSlots |-> cnt,
     freeSlots |-> Uint16(cap - cnt),
     firstFreeSlot |-> FindEmptySlotOp(scanned, occ, cap, 1),
     lastFreeSlot |-> FindLastEmptySlotOp(scanned, occ, cap),
     occ |-> occ, cnt |-> cnt, scanned |-> scanned,
     calls |-> <<>>, last |-> NO_STATUS]

\* UniversalFingerprint::getDatabaseStats, as a function of the fields it
\* reads: the statistics record (usagePercentage, a float, is left out), the
\* cache fields after the call and the probes of the scan it may trigger
GetDatabaseStatsOp(init, alloc, occ, cap, cnt, scanned, dev, linkUp) ==
    LET s == IF ~scanned
             THEN ScanDatabaseOp(init, alloc, occ, cap, cnt, scanned, dev,
                                 linkUp)
             ELSE [ret |-> 0, occ |-> occ, cnt |-> cnt, scanned |-> scanned,
                   calls |-> <<>>, last |-> NO_STATUS]
    IN  [totalSlots |-> cap,
         occupiedSlots |-> s.cnt,
         freeSlots |-> Uint16(cap - s.cnt),
         firstFreeSlot |-> FindEmptySlotOp(s.scanned, s.occ, cap, 1),
         lastFreeSlot |-> FindLastEmptySlotOp(s.scanned, s.occ, cap),
         occ |-> s.occ, cnt |-> s.cnt, scanned |-> s.scanned,
         calls |-> s.calls, last |-> s.last]

\* the queries on the current state
IsSlotOccupied(id) ==
    IsSlotOccupiedOp(databaseScanned, slotOccupancy, capacity, id)

FindEmptySlot(start) ==
    FindEmptySlotOp(databaseScanned, slotOccupancy, capacity, start)

FindLastEmptySlot == FindLastEmptySlotOp(databaseScanned, slotOccupancy, capacity)

\* UniversalFingerprint::getEnrolledCount
GetEnrolledCount == enrolledCount

\* the record getDatabaseStats would return now, over a link that is up
GetDatabaseStats ==
    GetDatabaseStatsOp(initialized, allocated, slotOccupancy, capacity,
                       enrolledCount, databaseScanned, devStore, TRUE)

\* an _updateSlotOccupancy that never clears an entry
UpdateSlotOccupancy_Sticky(alloc, occ, scanned, cap, id, occupied) ==
    IF alloc /\ id >= 1 /\ id <= cap
    THEN [occ |-> IF occupied THEN occ \cup {id} ELSE occ, scanned |-> TRUE]
    ELSE [occ |-> occ, scanned |-> scanned]

\* an _updateSlotOccupancy that rewrites the whole array
UpdateSlotOccupancy_Rewrites(alloc, occ, scanned, cap, id, occupied) ==
    IF alloc /\ id >= 1 /\ id <= cap
    THEN [occ |-> IF occupied THEN {id} ELSE {}, scanned |-> TRUE]
    ELSE [occ |-> occ, scanned |-> scanned]

\* UniversalFingerprint::_updateSlotOccupancy: the array and the scanned flag
UpdateSlotOccupancy(alloc, occ, scanned, cap, id, occupied) ==
    IF alloc /\ id >= 1 /\ id <= cap
    THEN [occ |-> IF occupied THEN occ \cup {id} ELSE occ \ {id},
          scanned |-> TRUE]
    ELSE [occ |-> occ, scanned |-> scanned]

\* ------------------------------------------------------------------- begin
\* begin(), "Auto-detect sensor if needed" to "Default to AS608 if still
\* unknown": the resulting _sensorType and _capacity and the device calls
ResolveProfile_NoFallback(stype, cap, dev, param) ==
    LET d == IF stype = UF_SENSOR_AUTO THEN Detect(dev, param)
             ELSE [type |-> stype, calls |-> <<>>]
    IN  [sensorType |-> d.type, capacity |-> LookupCapacity(d.type, cap),
         calls |-> d.calls]

\* a begin() that runs the detector whatever type the facade was given
ResolveProfile_AlwaysDetect(stype, cap, dev, param) ==
    LET d == Detect(dev, param)
        t1 == IF d.type = UF_SENSOR_AUTO THEN UF_SENSOR_AS608 ELSE d.type
        c1 == LookupCapacity(t1, cap)
    IN  [sensorType |-> IF c1 = 0 THEN UF_SENSOR_AS608 ELSE t1,
         capacity |-> IF c1 = 0 THEN 162 ELSE c1,
         calls |-> d.calls]

ResolveProfile(stype, cap, dev, param) ==
    LET d == IF stype = UF_SENSOR_AUTO THEN Detect(dev, param)
             ELSE [type |-> stype, calls |-> <<>>]
        t1 == IF stype = UF_SENSOR_AUTO /\ d.type = UF_SENSOR_AUTO
              THEN UF_SENSOR_AS608 ELSE d.type
        c1 == LookupCapacity(t1, cap)
    IN  [sensorType |-> IF c1 = 0 THEN UF_SENSOR_AS608 ELSE t1,
         capacity |-> IF c1 = 0 THEN 162 ELSE c1,
         calls |-> d.calls]

\* ------------------------------------------------------- finger capture
\* the numeric value of a UF_ErrorCode
ErrorValue(code) ==
    CASE code = UF_OK -> 0
      [] code = UF_ERROR_COMM -> 1
      [] code = UF_ERROR_NO_SENSOR -> 2
      [] code = UF_ERROR_INVALID_ID -> 3
      [] code = UF_ERROR_SLOT_FULL -> 4
      [] code = UF_ERROR_TIMEOUT -> 5
      [] code = UF_ERROR_SENSOR_BUSY -> 6
      [] code = UF_ERROR_PACKET -> 7
      [] code = UF_ERROR_NOT_ENROLLED -> 8
      [] code = UF_ERROR_NO_FINGER -> 9
      [] code = UF_ERROR_IMAGE_MESS -> 10
      [] code = UF_ERROR_FEATURE_FAIL -> 11
      [] code = UF_ERROR_IMAGE_FAIL -> 12
      [] code = UF_ERROR_DUPLICATE_ID -> 13
      [] code = UF_ERROR_NOT_SUPPORTED -> 14
      [] code = UF_ERROR_INVALID_PARAM -> 15

\* an error returned by identify with its sign kept
Negated_Positive(code) == ErrorValue(code)

\* identify: return -UF_ERROR_..., return -_convertAdafruitError(result)
Negated(code) == 0 - ErrorValue(code)

\* delay(100) between two polls of identify's wait loop, in ms
PollMs == 100

\* timeout * 1000: the timeout argument is in seconds
MsPerSecond == 1000

\* What the module answers the n-th getImage of a call: finger.first up to
\* the finger.until-th, finger.then after it.
Image(finger, n) == IF n <= finger.until THEN finger.first ELSE finger.then

\* UniversalFingerprint::isFingerPresent; img is getImage()'s answer
IsFingerPresentOp(init, img) ==
    init /\ img \in {FINGERPRINT_OK, FINGERPRINT_NOFINGER}

\* identify's "Wait for finger" loop and the check after it: the number of
\* getImage polls, the time waited and whether the check found a finger.
\* Iteration i starts (i - 1) * PollMs after the call and polls once.
WaitForFinger(timeout, finger) ==
    LET iters == {i \in 1..((timeout * MsPerSecond) \div PollMs + 1) :
                     (i - 1) * PollMs < timeout * MsPerSecond}
        hits == {i \in iters : IsFingerPresentOp(TRUE, Image(finger, i))}
        polls == IF hits = {} THEN Cardinality(iters)
                 ELSE CHOOSE i \in hits : \A j \in hits : i <= j
    IN  [polls |-> polls + 1,
         elapsed |-> IF hits = {} THEN Cardinality(iters) * PollMs
                     ELSE (polls - 1) * PollMs,
         present |-> IsFingerPresentOp(TRUE, Image(finger, polls + 1))]

\* UniversalFingerprint::identify on an initialized facade: the return value,
\* the confidence stored, the time waited and the device calls. tz, search,
\* id and conf are what image2Tz and fingerFastSearch answer. The entry
\* <<"getImage", 1, n>> of the log stands for the first n getImage calls.
IdentifyOp(timeout, finger, tz, search, id, conf) ==
    LET w == WaitForFinger(timeout, finger)
        img == Image(finger, w.polls + 1)
    IN  IF ~w.present
        THEN [ret |-> Negated(UF_ERROR_TIMEOUT), confidence |-> 0,
              elapsed |-> w.elapsed, last |-> Image(finger, w.polls),
              calls |-> CallRun("getImage", 1, w.polls)]
        ELSE IF img # FINGERPRINT_OK
        THEN [ret |-> Negated(ConvertAdafruitError(img)), confidence |-> 0,
              elapsed |-> w.elapsed, last |-> img,
              calls |-> CallRun("getImage", 1, w.polls + 1)]
        ELSE IF tz # FINGERPRINT_OK
        THEN [ret |-> Negated(ConvertAdafruitError(tz)), confidence |-> 0,
              elapsed |-> w.elapsed, last |-> tz,
              calls |-> CallRun("getImage", 1, w.polls + 1)
                            \o <<Call("image2Tz", 1)>>]
        ELSE [ret |-> CASE search = FINGERPRINT_OK -> id
                        [] search = FINGERPRINT_NOTFOUND -> 0
                        [] OTHER -> Negated(ConvertAdafruitError(search)),
              confidence |-> IF search = FINGERPRINT_OK THEN conf ELSE 0,
              elapsed |-> w.elapsed, last |-> search,
              calls |-> CallRun("getImage", 1, w.polls + 1)
                            \o <<Call("image2Tz", 1),
                                 Call("fingerFastSearch", 0)>>]

\* ------------------------------------------------------------ caller inputs
\* the ids a caller passes: 0, the low ids, the last slot and one past it
TestIds == (0..MaxSmallId) \cup {capacity, capacity + 1}

\* the failure codes the module answers a command with
FailCodes ==
    {FINGERPRINT_PACKETRECIEVEERR, FINGERPRINT_NOFINGER, FINGERPRINT_UNLISTED}

\* the answers of one enrollment: <<failAt, failCode>>, failAt = 0 when every
\* step answers FINGERPRINT_OK; any step may fail with a packet error, the two
\* captures (steps 1 and 3) may also see no finger
EnrollScripts ==
    {<<0, FINGERPRINT_OK>>} \cup ((1..6) \X {FINGERPRINT_PACKETRECIEVEERR})
        \cup ({1, 3} \X {FINGERPRINT_NOFINGER})

\* the module answers FINGERPRINT_OK to every command of an enrollment
NoScript == <<0, FINGERPRINT_OK>>

\* what getParameters() answers
Params == {0, 1}

\* the numScans arguments a caller passes
ScanCounts == {2}

\* the clearDatabase run in which every deleteModel answers FINGERPRINT_OK
NoFault == <<0, FINGERPRINT_OK>>

\* clearDatabase: at most one deleteModel, of a low slot, answers something
\* else than FINGERPRINT_OK; <<0, FINGERPRINT_OK>> is the run without fault
ClearFaults ==
    {NoFault}
        \cup ((1..MaxSmallId)
               \X {FINGERPRINT_BADLOCATION, FINGERPRINT_PACKETRECIEVEERR})

\* the states of the serial link during a scan: up or down when the scan
\* runs (probes = TRUE), not drawn when it issues no probe
LinkStates(probes) == IF probes THEN BOOLEAN ELSE {TRUE}

\* a finger (or a module) that answers every getImage with the code c
Steady(c) == [until |-> 0, first |-> c, then |-> c]

\* what getImage answers during one call: a finger on the sensor, no finger,
\* a module that does not answer, a module that answers after its 1st or
\* 12th poll, a finger that is lifted after the 2nd
Fingers ==
    {Steady(FINGERPRINT_OK), Steady(FINGERPRINT_NOFINGER),
     Steady(FINGERPRINT_PACKETRECIEVEERR),
     [until |-> 1, first |-> FINGERPRINT_PACKETRECIEVEERR,
      then |-> FINGERPRINT_OK],
     [until |-> 12, first |-> FINGERPRINT_PACKETRECIEVEERR,
      then |-> FINGERPRINT_OK],
     [until |-> 2, first |-> FINGERPRINT_OK, then |-> FINGERPRINT_NOFINGER]}

\* the timeout arguments of identify, in seconds
Timeouts == {0, 1, 2}

\* what image2Tz answers
TzAnswers == {FINGERPRINT_OK, FINGERPRINT_IMAGEMESS}

\* the templates a search can match: the module's, among the low and the
\* boundary slots
MatchIds(dev) == dev \cap ((1..MaxSmallId) \cup CatalogCaps)

\* what fingerFastSearch answers; a match needs a stored template
SearchAnswers(dev) ==
    {FINGERPRINT_NOTFOUND, FINGERPRINT_PACKETRECIEVEERR}
        \cup (IF MatchIds(dev) = {} THEN {} ELSE {FINGERPRINT_OK})

\* _finger->confidence after a match
Confidences == {85}

\* a call that captures nothing
NoCapture ==
    [timeout |-> 0, elapsed |-> 0, finger |-> Steady(FINGERPRINT_NOFINGER),
     tz |-> NO_STATUS, search |-> NO_STATUS, confidence |-> 0]

\* the stores a module holds at power-up: a module whose probe accepts exactly
\* the indices <= c, a sparsely filled module, a module holding one template
\* at a cataloged boundary index
InitStores ==
    {1..c : c \in CatalogCaps} \cup (SUBSET (1..MaxSmallId))
        \cup {{c} : c \in CatalogCaps}

\* the stores a facade constructed with a fixed sensor type is run against
FixedTypeStores == {{}, {1}, {1, 1000}}

\* the facades constructed and the module each is attached to
InitConfigs ==
    ({UF_SENSOR_AUTO} \X InitStores)
        \cup ((UF_SensorType \ {UF_SENSOR_AUTO}) \X FixedTypeStores)

\* the UF_DatabaseStats fields a call fills in (usagePercentage, a float, is
\* left out); all zero when the call fills in none
NoStats ==
    [totalSlots |-> 0, occupiedSlots |-> 0, freeSlots |-> 0,
     firstFreeSlot |-> 0, lastFreeSlot |-> 0]

\* a call without numScans argument and without module fault
NoCall == [numScans |-> 0, fault |-> NoFault, script |-> NoScript]

\* the cache and the last call, as a call finds them
Snapshot ==
    [occ |-> slotOccupancy, cnt |-> enrolledCount,
     scanned |-> databaseScanned, op |-> lastOp, code |-> lastCode,
     slot |-> lastInt]

\* ------------------------------------------------------ UF_MemoryManager
\* UF_MemoryManager::UF_MemoryManager, attached to a module holding dev
MMNew(cap, dev) ==
    [capacity |-> cap, enrolledCount |-> 0, allocated |-> FALSE,
     slotMap |-> {}, dev |-> dev]

\* UF_MemoryManager::_validateID
MMValidateID(m, id) == id >= 1 /\ id <= m.capacity

\* a scanAllSlots that does not reset the count before it counts
ScanAllSlotsOp_KeepsCount(m, linkUp) ==
    IF ~m.allocated THEN [ret |-> FALSE, mm |-> m]
    ELSE LET found == {id \in 1..m.capacity :
                          Probe(m.dev, id, linkUp) = FINGERPRINT_OK}
         IN  [ret |-> TRUE,
              mm |-> [m EXCEPT !.slotMap = found,
                               !.enrolledCount =
                                   Uint16(@ + Cardinality(found))]]

\* UF_MemoryManager::scanAllSlots
ScanAllSlotsOp(m, linkUp) ==
    IF ~m.allocated THEN [ret |-> FALSE, mm |-> m]
    ELSE LET found == {id \in 1..m.capacity :
                          Probe(m.dev, id, linkUp) = FINGERPRINT_OK}
         IN  [ret |-> TRUE,
              mm |-> [m EXCEPT !.slotMap = found,
                               !.enrolledCount = Cardinality(found)]]

\* UF_MemoryManager::init
MMInitOp(m, linkUp) ==
    IF m.capacity = 0 THEN [ret |-> FALSE, mm |-> m]
    ELSE ScanAllSlotsOp([m EXCEPT !.allocated = TRUE, !.slotMap = {}], linkUp)

\* an updateSlot that counts every updateSlot(id, true)
UpdateSlotOp_CountsEveryMark(m, id, occupied) ==
    IF ~MMValidateID(m, id) \/ ~m.allocated THEN [ret |-> FALSE, mm |-> m]
    ELSE [ret |-> TRUE,
          mm |-> [m EXCEPT
                    !.slotMap = IF occupied THEN @ \cup {id} ELSE @ \ {id},
                    !.enrolledCount =
                        IF occupied THEN Uint16(@ + 1)
                        ELSE IF id \in m.slotMap /\ @ > 0 THEN @ - 1 ELSE @]]

\* UF_MemoryManager::updateSlot
UpdateSlotOp(m, id, occupied) ==
    IF ~MMValidateID(m, id) \/ ~m.allocated THEN [ret |-> FALSE, mm |-> m]
    ELSE LET current == id \in m.slotMap
         IN  [ret |-> TRUE,
              mm |-> [m EXCEPT
                        !.slotMap = IF occupied THEN @ \cup {id}
                                    ELSE @ \ {id},
                        !.enrolledCount =
                            IF current /\ ~occupied
                            THEN (IF @ > 0 THEN @ - 1 ELSE @)
                            ELSE IF ~current /\ occupied THEN Uint16(@ + 1)
                            ELSE @]]

\* UF_MemoryManager::isSlotOccupied
MMIsSlotOccupied(m, id) ==
    IF ~MMValidateID(m, id) \/ ~m.allocated THEN FALSE ELSE id \in m.slotMap

\* UF_MemoryManager::findEmptySlot
MMFindEmptySlot(m, start) ==
    IF ~m.allocated \/ start < 1 \/ start > m.capacity THEN 0
    ELSE IF \A i \in start..m.capacity : i \in m.slotMap THEN 0
    ELSE CHOOSE i \in start..m.capacity :
            i \notin m.slotMap /\ \A j \in start..(i - 1) : j \in m.slotMap

\* UF_MemoryManager::defragment: false when a slot above the first empty one
\* is occupied; the loop starts at findEmptySlot(1) + 1
DefragmentOp(m) ==
    LET nextEmpty == MMFindEmptySlot(m, 1)
    IN  ~\E i \in (nextEmpty + 1)..m.capacity : MMIsSlotOccupied(m, i)

\* UF_MemoryManager::getEnrolledCount
MMGetEnrolledCount(m) == m.enrolledCount

\* UF_MemoryManager::getStatistics (uint16_t total, occupied, free)
MMGetStatistics(m) ==
    [total |-> m.capacity, occupied |-> m.enrolledCount,
     free |-> Uint16(m.capacity - m.enrolledCount)]

\* the capacities the memory managers are constructed with
MMCapacities == 0..(MaxSmallId + 1)

\* the ids updateSlot is called with: 0, the slots, and the id past the last
MMIds(m) == 0..(m.capacity + 1)

\* the facade's _memoryManager: begin() constructs it and no method of the
\* facade calls into it
NoManager == MMNew(0, {})

\* no call on the memory manager yet
NoMMCall ==
    [op |-> "new", id |-> 0, occupied |-> FALSE, ret |-> FALSE,
     repeat |-> FALSE]

\* ------------------------------------------------------------ two instances
\* the UniversalFingerprint objects of test_memory_management
Instances == {"smallSensor", "largeSensor"}

\* the data members of a constructed UniversalFingerprint, with the module
\* behind its _finger
NewInstance(object, type, dev) ==
    [object |-> object, ctorType |-> type, sensorType |-> type,
     capacity |-> (IF type # UF_SENSOR_AUTO THEN LookupCapacity(type, 0)
                   ELSE 0),
     enrolledCount |-> 0, initialized |-> FALSE, databaseScanned |-> FALSE,
     allocated |-> FALSE, slotOccupancy |-> {}, devStore |-> dev,
     modelDevice |-> TRUE]

\* the data members of the object being called
This ==
    [object |-> CHOOSE o \in Instances : o # other.object,
     ctorType |-> ctorType, sensorType |-> sensorType, capacity |-> capacity,
     enrolledCount |-> enrolledCount, initialized |-> initialized,
     databaseScanned |-> databaseScanned, allocated |-> allocated,
     slotOccupancy |-> slotOccupancy, devStore |-> devStore,
     modelDevice |-> modelDevice]

\* the second object, constructed and not called
Parked == NewInstance("largeSensor", UF_SENSOR_R307, {})

\* the stores of the modules the two objects are attached to
TwoStores == {{}, {1}}

\* ------------------------------------------------------------ construction
\* UniversalFingerprint::UniversalFingerprint, for the facades cfgs
Constructed(cfgs) ==
    /\ \E cfg \in cfgs : ctorType = cfg[1] /\ devStore = cfg[2]
    /\ sensorType = ctorType
    /\ capacity = (IF ctorType # UF_SENSOR_AUTO
                   THEN LookupCapacity(ctorType, 0) ELSE 0)
    /\ enrolledCount = 0
    /\ initialized = FALSE
    /\ databaseScanned = FALSE
    /\ allocated = FALSE
    /\ slotOccupancy = {}
    /\ modelDevice = TRUE
    /\ allSuccess = TRUE
    /\ lastOp = "new"
    /\ lastId = 0
    /\ lastCode = UF_NONE
    /\ lastInt = 0
    /\ lastBool = FALSE
    /\ lastVendor = NO_STATUS
    /\ lastStats = NoStats
    /\ devCalls = <<>>
    /\ lastCall = NoCall
    /\ before = [occ |-> {}, cnt |-> 0, scanned |-> FALSE, op |-> "new",
                 code |-> UF_NONE, slot |-> 0]
    /\ lastCapture = NoCapture
    /\ nOps = 0

\* one facade, its memory manager unused, a second object never called
Init ==
    /\ Constructed(InitConfigs)
    /\ mm = NoManager
    /\ mmCall = NoMMCall
    /\ other = Parked

\* the mutating operations of the facade
MutatingOps == {"enroll", "deleteTemplate", "clearDatabase"}

\* what every facade call records about itself
Returns(op, id, code, int, bool, vendor, calls) ==
    /\ allSuccess' = (allSuccess /\ (op \in MutatingOps => code = UF_OK))
    /\ lastOp' = op
    /\ lastId' = id
    /\ lastCode' = code
    /\ lastInt' = int
    /\ lastBool' = bool
    /\ lastVendor' = vendor
    /\ lastStats' = NoStats
    /\ devCalls' = calls
    /\ nOps' = nOps + 1

\* UniversalFingerprint::begin; beginOk is _finger->begin(), pw is
\* verifyPassword(), param is what getParameters() answers the detector; the
\* link that just answered the handshake is up for the probes that follow
Begin(beginOk, pw) ==
    /\ nOps < MaxOps
    /\ IF ~beginOk
       THEN /\ Returns("begin", 0, UF_NONE, 0, FALSE, NO_STATUS,
                       <<Call("begin", 0)>>)
            /\ UNCHANGED <<ctorType, sensorType, capacity, enrolledCount,
                           initialized, databaseScanned, allocated,
                           slotOccupancy, devStore, modelDevice>>
       ELSE IF pw # FINGERPRINT_OK
       THEN /\ Returns("begin", 0, UF_NONE, 0, FALSE, pw,
                       <<Call("begin", 0), Call("verifyPassword", 0)>>)
            /\ UNCHANGED <<ctorType, sensorType, capacity, enrolledCount,
                           initialized, databaseScanned, allocated,
                           slotOccupancy, devStore, modelDevice>>
       ELSE \E param \in Params :
            LET prof == ResolveProfile(sensorType, capacity, devStore,
                                       IF sensorType = UF_SENSOR_AUTO
                                       THEN param ELSE 0)
                scan == ScanDatabaseOp(initialized, TRUE, Zeroed,
                                       prof.capacity, enrolledCount,
                                       databaseScanned, devStore, TRUE)
                last == IF scan.calls # <<>> THEN scan.last
                        ELSE IF prof.calls # <<>>
                        THEN GetTemplateCount(devStore,
                                 prof.calls[Len(prof.calls)][2])
                        ELSE pw
            IN  /\ sensorType' = prof.sensorType
                /\ capacity' = prof.capacity
                /\ allocated' = TRUE
                /\ slotOccupancy' = scan.occ
                /\ enrolledCount' = scan.cnt
                /\ databaseScanned' = scan.scanned
                /\ initialized' = TRUE
                /\ Returns("begin", 0, UF_NONE, 0, TRUE, last,
                           <<Call("begin", 0), Call("verifyPassword", 0)>>
                               \o prof.calls \o scan.calls)
                /\ UNCHANGED <<ctorType, devStore, modelDevice>>

\* UniversalFingerprint::scanDatabase
ScanDatabase ==
    /\ nOps < MaxOps
    /\ \E linkUp \in LinkStates(initialized /\ allocated) :
       LET scan == ScanDatabaseOp(initialized, allocated, slotOccupancy,
                                  capacity, enrolledCount, databaseScanned,
                                  devStore, linkUp)
       IN  /\ slotOccupancy' = scan.occ
           /\ enrolledCount' = scan.cnt
           /\ databaseScanned' = scan.scanned
           /\ modelDevice' = (modelDevice /\ linkUp)
           /\ Returns("scanDatabase", 0, UF_NONE, scan.ret, FALSE, scan.last,
                      scan.calls)
    /\ UNCHANGED <<ctorType, sensorType, capacity, initialized, allocated,
                   devStore>>

\* UniversalFingerprint::getDatabaseStats
GetDatabaseStatsCall ==
    /\ nOps < MaxOps
    /\ \E linkUp \in LinkStates(~databaseScanned /\ initialized /\ allocated) :
       LET st == GetDatabaseStatsOp(initialized, allocated, slotOccupancy,
                                    capacity, enrolledCount, databaseScanned,
                                    devStore, linkUp)
       IN  /\ slotOccupancy' = st.occ
           /\ enrolledCount' = st.cnt
           /\ databaseScanned' = st.scanned
           /\ modelDevice' = (modelDevice /\ linkUp)
           /\ lastOp' = "getDatabaseStats"
           /\ lastId' = 0
           /\ lastCode' = UF_NONE
           /\ lastInt' = 0
           /\ lastBool' = TRUE
           /\ lastVendor' = st.last
           /\ lastStats' = [totalSlots |-> st.totalSlots,
                            occupiedSlots |-> st.occupiedSlots,
                            freeSlots |-> st.freeSlots,
                            firstFreeSlot |-> st.firstFreeSlot,
                            lastFreeSlot |-> st.lastFreeSlot]
           /\ devCalls' = st.calls
           /\ nOps' = nOps + 1
    /\ UNCHANGED <<ctorType, sensorType, capacity, initialized, allocated,
                   devStore, allSuccess>>

\* UniversalFingerprint::_enrollInternal: step s of the protocol answers
\* failCode when s = failAt and FINGERPRINT_OK otherwise
\*   1 getImage  2 image2Tz(1)  3 getImage (polled)  4 image2Tz(2)
\*   5 createModel  6 storeModel(id)
\* A second capture that keeps answering NOFINGER leaves the polling loop at
\* its timeout and the protocol goes on with image2Tz(2).
EnrollInternal(id, failAt, failCode) ==
    LET Resp(s) == IF s = failAt THEN failCode ELSE FINGERPRINT_OK
        Name(s) == CASE s = 1 -> Call("getImage", 0)
                     [] s = 2 -> Call("image2Tz", 1)
                     [] s = 3 -> Call("getImage", 0)
                     [] s = 4 -> Call("image2Tz", 2)
                     [] s = 5 -> Call("createModel", 0)
                     [] s = 6 -> Call("storeModel", id)
        Stops(s) == IF s = 3
                    THEN Resp(s) \notin {FINGERPRINT_OK, FINGERPRINT_NOFINGER}
                    ELSE Resp(s) # FINGERPRINT_OK
        stops == {s \in 1..6 : Stops(s)}
        last == IF stops = {} THEN 6
                ELSE CHOOSE s \in stops : \A t \in stops : s <= t
    IN  [code |-> ConvertAdafruitError(Resp(last)),
         result |-> Resp(last),
         storeCode |-> IF last = 6 THEN Resp(6) ELSE "not issued",
         calls |-> [s \in 1..last |-> Name(s)]]

\* an enroll that does not check whether the slot is occupied
SlotTaken_Never(scanned, occ, slot) == FALSE

\* enroll, "Check if slot is occupied", with the condition's first operand
\* negated
SlotTaken_Negated(scanned, occ, slot) == ~scanned /\ slot \in occ

\* enroll, "Check if slot is occupied": _databaseScanned && _slotOccupancy[id - 1]
SlotTaken(scanned, occ, slot) == scanned /\ slot \in occ

\* UniversalFingerprint::enroll; script is what the module answers the
\* enrollment's commands
Enroll(id, numScans, script) ==
    /\ nOps < MaxOps
    /\ IF ~initialized
       THEN /\ Returns("enroll", id, UF_ERROR_NO_SENSOR, 0, FALSE, NO_STATUS,
                       <<>>)
            /\ UNCHANGED <<ctorType, sensorType, capacity, enrolledCount,
                           initialized, databaseScanned, allocated,
                           slotOccupancy, devStore, modelDevice>>
       ELSE LET scans == IF numScans < 1 \/ numScans > 4 THEN 2 ELSE numScans
                slot == IF id = 0 THEN FindEmptySlot(1) ELSE id
            IN  IF id = 0 /\ slot = 0
                THEN /\ Returns("enroll", id, UF_ERROR_SLOT_FULL, 0, FALSE,
                                NO_STATUS, <<>>)
                     /\ UNCHANGED <<ctorType, sensorType, capacity,
                                    enrolledCount, initialized,
                                    databaseScanned, allocated,
                                    slotOccupancy, devStore, modelDevice>>
                ELSE IF ~ValidateID(slot, capacity)
                THEN /\ Returns("enroll", id, UF_ERROR_INVALID_ID, 0, FALSE,
                                NO_STATUS, <<>>)
                     /\ UNCHANGED <<ctorType, sensorType, capacity,
                                    enrolledCount, initialized,
                                    databaseScanned, allocated,
                                    slotOccupancy, devStore, modelDevice>>
                ELSE IF SlotTaken(databaseScanned, slotOccupancy, slot)
                THEN /\ Returns("enroll", id, UF_ERROR_DUPLICATE_ID, 0, FALSE,
                                NO_STATUS, <<>>)
                     /\ UNCHANGED <<ctorType, sensorType, capacity,
                                    enrolledCount, initialized,
                                    databaseScanned, allocated,
                                    slotOccupancy, devStore, modelDevice>>
                ELSE LET r == EnrollInternal(slot, script[1], script[2])
                         upd == UpdateSlotOccupancy(allocated, slotOccupancy,
                                    databaseScanned, capacity, slot, TRUE)
                     IN  /\ Returns("enroll", id, r.code, slot, FALSE, r.result,
                                    r.calls)
                         /\ devStore' = (IF r.storeCode = "not issued"
                                         THEN devStore
                                         ELSE StoreModel(devStore, slot,
                                                         r.storeCode))
                         /\ modelDevice' =
                               (modelDevice /\
                                r.storeCode \in {"not issued", FINGERPRINT_OK})
                         /\ IF r.code = UF_OK
                            THEN /\ slotOccupancy' = upd.occ
                                 /\ databaseScanned' = upd.scanned
                                 /\ enrolledCount' = Uint16(enrolledCount + 1)
                            ELSE UNCHANGED <<slotOccupancy, databaseScanned,
                                             enrolledCount>>
                         /\ UNCHANGED <<ctorType, sensorType, capacity,
                                        initialized, allocated>>

\* UniversalFingerprint::deleteTemplate; code is deleteModel(id)'s answer
DeleteTemplate(id) ==
    /\ nOps < MaxOps
    /\ IF ~initialized
       THEN /\ Returns("deleteTemplate", id, UF_ERROR_NO_SENSOR, 0, FALSE,
                       NO_STATUS, <<>>)
            /\ UNCHANGED <<ctorType, sensorType, capacity, enrolledCount,
                           initialized, databaseScanned, allocated,
                           slotOccupancy, devStore, modelDevice>>
       ELSE IF ~ValidateID(id, capacity)
       THEN /\ Returns("deleteTemplate", id, UF_ERROR_INVALID_ID, 0, FALSE,
                       NO_STATUS, <<>>)
            /\ UNCHANGED <<ctorType, sensorType, capacity, enrolledCount,
                           initialized, databaseScanned, allocated,
                           slotOccupancy, devStore, modelDevice>>
       ELSE \E code \in {FINGERPRINT_OK} \cup FailCodes :
            LET upd == UpdateSlotOccupancy(allocated, slotOccupancy,
                                           databaseScanned, capacity, id, FALSE)
            IN  /\ Returns("deleteTemplate", id, ConvertAdafruitError(code),
                           0, FALSE, code, <<Call("deleteModel", id)>>)
                /\ devStore' = DeleteModel(devStore, id, code)
                /\ modelDevice' = (modelDevice /\ code = FINGERPRINT_OK)
                /\ IF code = FINGERPRINT_OK
                   THEN /\ slotOccupancy' = upd.occ
                        /\ databaseScanned' = upd.scanned
                        /\ enrolledCount' = (IF enrolledCount > 0
                                             THEN enrolledCount - 1
                                             ELSE enrolledCount)
                   ELSE UNCHANGED <<slotOccupancy, databaseScanned,
                                    enrolledCount>>
                /\ UNCHANGED <<ctorType, sensorType, capacity, initialized,
                               allocated>>

\* a clearDatabase that takes only FINGERPRINT_OK for a deleted slot
DeleteTolerated_OnlyOK(result) == result = FINGERPRINT_OK

\* clearDatabase: the deleteModel answers that do not fail the call,
\* result == FINGERPRINT_OK || result == FINGERPRINT_BADLOCATION
DeleteTolerated(result) ==
    result = FINGERPRINT_OK \/ result = FINGERPRINT_BADLOCATION

\* UniversalFingerprint::clearDatabase; deleteModel(fault[1]) answers fault[2],
\* the deleteModel of every other slot answers FINGERPRINT_OK
ClearDatabase(fault) ==
    /\ nOps < MaxOps
    /\ IF ~initialized
       THEN /\ Returns("clearDatabase", 0, UF_ERROR_NO_SENSOR, 0, FALSE,
                       NO_STATUS, <<>>)
            /\ UNCHANGED <<ctorType, sensorType, capacity, enrolledCount,
                           initialized, databaseScanned, allocated,
                           slotOccupancy, devStore, modelDevice>>
       ELSE LET Answer(i) == IF i = fault[1] THEN fault[2]
                             ELSE FINGERPRINT_OK
                success == \A i \in 1..capacity : DeleteTolerated(Answer(i))
            IN  /\ Returns("clearDatabase", 0,
                           IF success THEN UF_OK ELSE UF_ERROR_COMM, 0, FALSE,
                           Answer(capacity),
                           CallRun("deleteModel", 1, capacity))
                /\ devStore' = {i \in devStore :
                                   ~(i \in 1..capacity
                                     /\ Answer(i) = FINGERPRINT_OK)}
                /\ modelDevice' =
                      (modelDevice /\
                       \A i \in 1..capacity : Answer(i) = FINGERPRINT_OK)
                /\ slotOccupancy' = (IF allocated THEN Zeroed
                                     ELSE slotOccupancy)
                /\ enrolledCount' = 0
                /\ databaseScanned' = FALSE
                /\ UNCHANGED <<ctorType, sensorType, capacity, initialized,
                               allocated>>

\* UniversalFingerprint::isFingerPresent
IsFingerPresentCall ==
    /\ nOps < MaxOps
    /\ IF ~initialized
       THEN /\ Returns("isFingerPresent", 0, UF_NONE, 0,
                       IsFingerPresentOp(initialized, NO_STATUS), NO_STATUS,
                       <<>>)
            /\ lastCapture' = NoCapture
       ELSE \E finger \in Fingers :
            /\ Returns("isFingerPresent", 0, UF_NONE, 0,
                       IsFingerPresentOp(initialized, Image(finger, 1)),
                       Image(finger, 1), <<Call("getImage", 0)>>)
            /\ lastCapture' = [NoCapture EXCEPT !.finger = finger]
    /\ UNCHANGED <<ctorType, sensorType, capacity, enrolledCount,
                   initialized, databaseScanned, allocated, slotOccupancy,
                   devStore, modelDevice>>

\* UniversalFingerprint::identify, called with a confidence pointer
Identify(timeout) ==
    /\ nOps < MaxOps
    /\ IF ~initialized
       THEN /\ Returns("identify", 0, UF_NONE, Negated(UF_ERROR_NO_SENSOR),
                       FALSE, NO_STATUS, <<>>)
            /\ lastCapture' = [NoCapture EXCEPT !.timeout = timeout]
       ELSE \E finger \in Fingers :
            LET w == WaitForFinger(timeout, finger)
                captured == w.present
                              /\ Image(finger, w.polls + 1) = FINGERPRINT_OK
            IN  \E tz \in (IF captured THEN TzAnswers ELSE {NO_STATUS}) :
                \E search \in (IF tz = FINGERPRINT_OK
                               THEN SearchAnswers(devStore)
                               ELSE {NO_STATUS}) :
                \E id \in (IF search = FINGERPRINT_OK
                           THEN MatchIds(devStore) ELSE {0}) :
                \E conf \in Confidences :
                LET r == IdentifyOp(timeout, finger, tz, search, id, conf)
                IN  /\ Returns("identify", 0, UF_NONE, r.ret, FALSE, r.last,
                               r.calls)
                    /\ lastCapture' =
                          [timeout |-> timeout, elapsed |-> r.elapsed,
                           finger |-> finger, tz |-> tz, search |-> search,
                           confidence |-> r.confidence]
    /\ UNCHANGED <<ctorType, sensorType, capacity, enrolledCount,
                   initialized, databaseScanned, allocated, slotOccupancy,
                   devStore, modelDevice>>

\* UniversalFingerprint::verify on an initialized facade: the outcome, the
\* confidence stored, the status of the last device command and the device
\* calls. The first getImage is isFingerPresent's, the second verify's own.
VerifyOp(cap, id, finger, tz, search, conf) ==
    IF ~ValidateID(id, cap)
    THEN [code |-> UF_ERROR_INVALID_ID, confidence |-> 0, last |-> NO_STATUS,
          calls |-> <<>>]
    ELSE IF ~IsFingerPresentOp(TRUE, Image(finger, 1))
    THEN [code |-> UF_ERROR_NO_FINGER, confidence |-> 0,
          last |-> Image(finger, 1), calls |-> CallRun("getImage", 1, 1)]
    ELSE IF Image(finger, 2) # FINGERPRINT_OK
    THEN [code |-> ConvertAdafruitError(Image(finger, 2)), confidence |-> 0,
          last |-> Image(finger, 2), calls |-> CallRun("getImage", 1, 2)]
    ELSE IF tz # FINGERPRINT_OK
    THEN [code |-> ConvertAdafruitError(tz), confidence |-> 0, last |-> tz,
          calls |-> CallRun("getImage", 1, 2) \o <<Call("image2Tz", 1)>>]
    ELSE [code |-> ConvertAdafruitError(search),
          confidence |-> IF search = FINGERPRINT_OK THEN conf ELSE 0,
          last |-> search,
          calls |-> CallRun("getImage", 1, 2)
                        \o <<Call("image2Tz", 1), Call("fingerSearch", id)>>]

\* what fingerSearch(id) answers; a match needs the template stored at id
VerifyAnswers(dev, id) ==
    {FINGERPRINT_NOTFOUND, FINGERPRINT_PACKETRECIEVEERR}
        \cup (IF id \in dev THEN {FINGERPRINT_OK} ELSE {})

\* UniversalFingerprint::verify, called with a confidence pointer
Verify(id) ==
    /\ nOps < MaxOps
    /\ IF ~initialized
       THEN /\ Returns("verify", id, UF_ERROR_NO_SENSOR, 0, FALSE, NO_STATUS,
                       <<>>)
            /\ lastCapture' = NoCapture
       ELSE \E finger \in Fingers :
            LET captured == ValidateID(id, capacity)
                              /\ Image(finger, 1) = FINGERPRINT_OK
                              /\ Image(finger, 2) = FINGERPRINT_OK
            IN  \E tz \in (IF captured THEN TzAnswers ELSE {NO_STATUS}) :
                \E search \in (IF tz = FINGERPRINT_OK
                               THEN VerifyAnswers(devStore, id)
                               ELSE {NO_STATUS}) :
                \E conf \in Confidences :
                LET r == VerifyOp(capacity, id, finger, tz, search, conf)
                IN  /\ Returns("verify", id, r.code, 0, FALSE, r.last,
                               r.calls)
                    /\ lastCapture' =
                          [NoCapture EXCEPT !.finger = finger, !.tz = tz,
                                            !.search = search,
                                            !.confidence = r.confidence]
    /\ UNCHANGED <<ctorType, sensorType, capacity, enrolledCount,
                   initialized, databaseScanned, allocated, slotOccupancy,
                   devStore, modelDevice>>

\* what a step records of its call beside the call's results
History(numScans, fault) ==
    /\ lastCall' = [numScans |-> numScans, fault |-> fault,
                    script |-> NoScript]
    /\ before' = Snapshot
    /\ UNCHANGED <<mm, mmCall, other>>

\* what an enroll step records: numScans and the module's answers
Scripted(numScans, script) ==
    /\ lastCall' = [numScans |-> numScans, fault |-> NoFault,
                    script |-> script]
    /\ before' = Snapshot
    /\ UNCHANGED <<lastCapture, mm, mmCall, other>>

\* enroll(id) gets as far as the enrollment protocol: the facade is
\* initialized, the slot is resolved and valid and not marked occupied
ReachesEnrollment(id) ==
    /\ initialized
    /\ LET slot == IF id = 0 THEN FindEmptySlot(1) ELSE id
       IN  /\ ValidateID(slot, capacity)
           /\ ~SlotTaken(databaseScanned, slotOccupancy, slot)

\* the answers drawn for an enroll: none for one that issues no command
EnrollScriptsNow(id) ==
    IF ReachesEnrollment(id) THEN EnrollScripts ELSE {NoScript}

\* the same, for a call that captures no finger
Records(numScans, fault) == History(numScans, fault) /\ UNCHANGED lastCapture

\* the faults drawn for a clearDatabase: none on a facade that issues no
\* deleteModel
ClearFaultsNow == IF initialized THEN ClearFaults ELSE {NoFault}

\* a step that records nothing beside the call's results
Frame == UNCHANGED <<lastCall, before, lastCapture, mm, mmCall, other>>

Next ==
    \/ \E beginOk \in BOOLEAN, pw \in {FINGERPRINT_OK, FINGERPRINT_PASSFAIL} :
          Begin(beginOk, pw) /\ Frame
    \/ ScanDatabase /\ Frame
    \/ GetDatabaseStatsCall /\ Frame
    \/ \E id \in TestIds, numScans \in ScanCounts :
          \E script \in EnrollScriptsNow(id) :
             Enroll(id, numScans, script) /\ Frame
    \/ \E id \in TestIds : DeleteTemplate(id) /\ Frame
    \/ \E fault \in ClearFaultsNow : ClearDatabase(fault) /\ Frame

Spec == Init /\ [][Next]_vars

\* ------------------------------------------- the facade with its call history
\* the numScans arguments around the bounds 1..4 of enroll
AllScanCounts == {0, 2, 5}

\* the sensor types of the facades whose calls are recorded
TracedTypes == {UF_SENSOR_AS608}

InitTraced == Init /\ ctorType \in TracedTypes

\* the mutating calls and the scans, each step recording the inputs of its
\* call and the cache the call found
NextTraced ==
    \/ \E beginOk \in BOOLEAN, pw \in {FINGERPRINT_OK, FINGERPRINT_PASSFAIL} :
          Begin(beginOk, pw) /\ Records(0, NoFault)
    \/ ScanDatabase /\ Records(0, NoFault)
    \/ \E id \in TestIds, numScans \in AllScanCounts :
          \E script \in EnrollScriptsNow(id) :
             Enroll(id, numScans, script) /\ Scripted(numScans, script)
    \/ \E id \in TestIds : DeleteTemplate(id) /\ Records(0, NoFault)
    \/ \E fault \in ClearFaultsNow : ClearDatabase(fault) /\ Records(0, fault)

SpecTraced == InitTraced /\ [][NextTraced]_vars

\* ------------------------------------------------- the facade and the finger
\* begin and the calls that capture a finger
NextCapture ==
    \/ \E beginOk \in BOOLEAN, pw \in {FINGERPRINT_OK, FINGERPRINT_PASSFAIL} :
          Begin(beginOk, pw) /\ Records(0, NoFault)
    \/ IsFingerPresentCall /\ History(0, NoFault)
    \/ \E timeout \in Timeouts : Identify(timeout) /\ History(0, NoFault)

SpecCapture == InitTraced /\ [][NextCapture]_vars

\* ------------------------------------------------- the memory manager alone
\* the facade is not called while the memory manager is
FacadeIdle ==
    UNCHANGED <<ctorType, sensorType, capacity, enrolledCount, initialized,
                databaseScanned, allocated, slotOccupancy, devStore,
                modelDevice, allSuccess, lastOp, lastId, lastCode, lastInt,
                lastBool, lastVendor, lastStats, devCalls, lastCall, before,
                lastCapture, other, nOps>>

\* what a call on the memory manager records about itself
MMReturns(op, id, occupied, ret) ==
    mmCall' = [op |-> op, id |-> id, occupied |-> occupied, ret |-> ret,
               repeat |-> (mmCall.op = op /\ mmCall.id = id
                             /\ mmCall.occupied = occupied)]

\* UF_MemoryManager::init
MMInit(linkUp) ==
    LET r == MMInitOp(mm, linkUp)
    IN  mm' = r.mm /\ MMReturns("init", 0, FALSE, r.ret) /\ FacadeIdle

\* UF_MemoryManager::updateSlot
MMUpdateSlot(id, occupied) ==
    LET r == UpdateSlotOp(mm, id, occupied)
    IN  mm' = r.mm /\ MMReturns("updateSlot", id, occupied, r.ret)
           /\ FacadeIdle

\* UF_MemoryManager::scanAllSlots
MMScanAllSlots(linkUp) ==
    LET r == ScanAllSlotsOp(mm, linkUp)
    IN  mm' = r.mm /\ MMReturns("scanAllSlots", 0, FALSE, r.ret)
           /\ FacadeIdle

\* UF_MemoryManager::defragment
MMDefragment ==
    /\ mm' = mm
    /\ MMReturns("defragment", 0, FALSE, DefragmentOp(mm))
    /\ FacadeIdle

InitMM ==
    /\ Constructed({<<UF_SENSOR_AS608, {}>>})
    /\ \E cap \in MMCapacities :
          \E dev \in SUBSET (1..cap) : mm = MMNew(cap, dev)
    /\ mmCall = NoMMCall
    /\ other = Parked

NextMM ==
    \/ \E linkUp \in BOOLEAN : MMInit(linkUp)
    \/ \E id \in MMIds(mm), occupied \in BOOLEAN : MMUpdateSlot(id, occupied)
    \/ \E linkUp \in BOOLEAN : MMScanAllSlots(linkUp)
    \/ MMDefragment

SpecMM == InitMM /\ [][NextMM]_vars

\* ------------------------------------------------------ two facade objects
\* the caller turns to the other object: its members become the ones the
\* next call works on
Select ==
    /\ ctorType' = other.ctorType
    /\ sensorType' = other.sensorType
    /\ capacity' = other.capacity
    /\ enrolledCount' = other.enrolledCount
    /\ initialized' = other.initialized
    /\ databaseScanned' = other.databaseScanned
    /\ allocated' = other.allocated
    /\ slotOccupancy' = other.slotOccupancy
    /\ devStore' = other.devStore
    /\ modelDevice' = other.modelDevice
    /\ other' = This
    /\ UNCHANGED <<allSuccess, lastOp, lastId, lastCode, lastInt, lastBool,
                   lastVendor, lastStats, devCalls, lastCall, before,
                   lastCapture, mm, mmCall, nOps>>

\* a class whose _enrolledCount is one static member
Isolated_SharedCount ==
    other' = [other EXCEPT !.enrolledCount = enrolledCount']

\* the data members are per object (none is static): a method reads and
\* writes the members of the object it is called on
Isolated == UNCHANGED other

\* a call on one of two objects
OnThis == Isolated /\ UNCHANGED <<lastCall, before, lastCapture, mm, mmCall>>

InitTwo ==
    /\ Constructed({UF_SENSOR_AS608} \X TwoStores)
    /\ mm = NoManager
    /\ mmCall = NoMMCall
    /\ other \in {NewInstance("largeSensor", UF_SENSOR_R307, dev) :
                      dev \in TwoStores}

NextTwo ==
    \/ Select
    \/ \E beginOk \in BOOLEAN, pw \in {FINGERPRINT_OK, FINGERPRINT_PASSFAIL} :
          Begin(beginOk, pw) /\ OnThis
    \/ ScanDatabase /\ OnThis
    \/ GetDatabaseStatsCall /\ OnThis
    \/ \E id \in TestIds, numScans \in ScanCounts :
          \E script \in EnrollScriptsNow(id) :
             Enroll(id, numScans, script) /\ OnThis
    \/ \E id \in TestIds : DeleteTemplate(id) /\ OnThis
    \/ \E fault \in ClearFaultsNow : ClearDatabase(fault) /\ OnThis

SpecTwo == InitTwo /\ [][NextTwo]_vars

\* --------------------------------------------- detection, arbitrary probes
\* the probes an Auto facade is detected against: the module accepts any set
\* of the cataloged capacity indices, monotone or not
DetectStores == SUBSET CatalogCaps

InitDetect ==
    /\ Constructed({UF_SENSOR_AUTO} \X DetectStores)
    /\ mm = NoManager
    /\ mmCall = NoMMCall
    /\ other = Parked

NextDetect ==
    \/ \E beginOk \in BOOLEAN, pw \in {FINGERPRINT_OK, FINGERPRINT_PASSFAIL} :
          Begin(beginOk, pw) /\ Frame
    \/ ScanDatabase /\ Frame

SpecDetect == InitDetect /\ [][NextDetect]_vars

\* ------------------------------------------------ every call, begun or not
\* a capture call that records nothing beside its results and its capture
Quiet == UNCHANGED <<lastCall, before, mm, mmCall, other>>

\* the facades called before and after begin(): an Auto one and an AS608,
\* the module holding one template
UnbegunConfigs == {UF_SENSOR_AUTO, UF_SENSOR_AS608} \X {{1}}

InitCalls ==
    /\ Constructed(UnbegunConfigs)
    /\ mm = NoManager
    /\ mmCall = NoMMCall
    /\ other = Parked

NextCalls ==
    \/ \E beginOk \in BOOLEAN, pw \in {FINGERPRINT_OK, FINGERPRINT_PASSFAIL} :
          Begin(beginOk, pw) /\ Frame
    \/ ScanDatabase /\ Frame
    \/ \E id \in TestIds, numScans \in ScanCounts :
          \E script \in EnrollScriptsNow(id) :
             Enroll(id, numScans, script) /\ Frame
    \/ \E id \in TestIds : DeleteTemplate(id) /\ Frame
    \/ \E fault \in ClearFaultsNow : ClearDatabase(fault) /\ Frame
    \/ IsFingerPresentCall /\ Quiet
    \/ \E timeout \in Timeouts : Identify(timeout) /\ Quiet
    \/ \E id \in TestIds : Verify(id) /\ Quiet

SpecCalls == InitCalls /\ [][NextCalls]_vars

\* ================================================================== claims
\* the ids the queries of a claim are asked for: around the low slots and
\* around the last slot
QueryIds == (0..(MaxSmallId + 1)) \cup {capacity, capacity + 1}

\* the number of ids in 1..capacity for which isSlotOccupied(id) is true, in
\* a cache with the given fields
OccupiedAnswers(scanned, occ, cap) ==
    Cardinality({id \in 1..cap : IsSlotOccupiedOp(scanned, occ, cap, id)})

\* C1 Cache consistency: on a facade whose begin() succeeded, while every
\* enroll, deleteTemplate and clearDatabase call so far returned UF_OK,
\* getEnrolledCount() and the occupiedSlots of getDatabaseStats equal the
\* number of ids in 1..capacity for which isSlotOccupied(id) is true.
C1_CacheConsistency ==
    (initialized /\ allSuccess) =>
        /\ GetEnrolledCount =
              OccupiedAnswers(databaseScanned, slotOccupancy, capacity)
        /\ LET stats == GetDatabaseStats
           IN  stats.occupiedSlots =
                  OccupiedAnswers(stats.scanned, stats.occ, capacity)

\* C2 Every begin() that returns true has performed one full scan: on return
\* the cache is marked scanned, isSlotOccupied(id) equals the probe's answer
\* for every id in 1..capacity and getEnrolledCount() is the number of slots
\* the probe reports occupied.
C2_BeginScans ==
    (lastOp = "begin" /\ lastBool) =>
        /\ databaseScanned
        /\ \A id \in 1..capacity :
              IsSlotOccupied(id) = (GetTemplateCount(devStore, id) = FINGERPRINT_OK)
        /\ GetEnrolledCount = Cardinality(devStore \cap (1..capacity))

\* C3 Cache mirrors device: against a module whose store changes only through
\* the facade's storeModel / deleteModel commands, each of which succeeds,
\* and whose probe reports the slot's state, after a successful begin() and
\* after every completed enroll, deleteTemplate, clearDatabase or
\* scanDatabase, whenever the cache is marked scanned, isSlotOccupied(id)
\* equals the module's occupancy of slot id for every id in 1..capacity.
C3_CacheMirrorsDevice ==
    (modelDevice /\ initialized /\ databaseScanned) =>
        \A id \in 1..capacity : IsSlotOccupied(id) = (id \in devStore)

\* the smallest id in k..capacity for which isSlotOccupied is false, 0 when
\* there is none or k is outside 1..capacity
SmallestFree(k) ==
    IF k < 1 \/ k > capacity \/ \A id \in k..capacity : IsSlotOccupied(id)
    THEN 0
    ELSE CHOOSE id \in k..capacity :
            ~IsSlotOccupied(id) /\ \A j \in k..(id - 1) : IsSlotOccupied(j)

\* C4 findEmptySlot correctness: in every cache state reachable after a
\* successful begin(), findEmptySlot(k) is the smallest id in k..capacity
\* with isSlotOccupied(id) false, and 0 exactly when there is no such id or k
\* is outside 1..capacity.
C4_FindEmptySlot ==
    initialized => \A k \in QueryIds : FindEmptySlot(k) = SmallestFree(k)

\* the step is a call of the facade operation op
Called(op) == nOps' = nOps + 1 /\ lastOp' = op

\* the step leaves the occupancy array, the occupied count and the scanned
\* flag as they were
CacheUnchanged ==
    /\ slotOccupancy' = slotOccupancy
    /\ enrolledCount' = enrolledCount
    /\ databaseScanned' = databaseScanned

\* C5 enroll(id) with id in 1..capacity on a slot the cache marks occupied
\* returns UF_ERROR_DUPLICATE_ID, issues no device call and leaves the
\* occupancy array and the occupied count unchanged.
C5_EnrollOccupiedRejected ==
    [][ (Called("enroll") /\ allocated /\ lastId' \in 1..capacity
            /\ lastId' \in slotOccupancy)
        => (/\ lastCode' = UF_ERROR_DUPLICATE_ID
            /\ devCalls' = <<>>
            /\ devStore' = devStore
            /\ CacheUnchanged) ]_vars

\* an enroll on an occupied slot was rejected
C5_Witness ==
    /\ lastOp = "enroll"
    /\ lastCode = UF_ERROR_DUPLICATE_ID
    /\ lastId \in slotOccupancy
    /\ devCalls = <<>>

\* C6 enroll(0) on a facade whose begin() succeeded: when a slot in
\* 1..capacity is empty, the store command targets the lowest-numbered empty
\* slot and on success exactly that slot becomes occupied; it returns
\* UF_ERROR_SLOT_FULL only when no slot in 1..capacity is empty.
C6_EnrollAuto ==
    [][ (Called("enroll") /\ initialized /\ lastId' = 0)
        => LET lowest == SmallestFree(1)
           IN  /\ (lastCode' = UF_ERROR_SLOT_FULL) => (lowest = 0)
               /\ (lowest # 0) =>
                     /\ \A i \in 1..Len(devCalls') :
                           devCalls'[i][1] = "storeModel" =>
                              devCalls'[i][2] = lowest
                     /\ (lastCode' = UF_OK) =>
                           slotOccupancy' = slotOccupancy \cup {lowest} ]_vars

\* the step is a deleteTemplate(id) with id = 0 or id > capacity, or an
\* enroll(id) with id > capacity
OutOfRangeCall ==
    \/ Called("deleteTemplate") /\ (lastId' = 0 \/ lastId' > capacity)
    \/ Called("enroll") /\ lastId' > capacity

\* such a call returns UF_ERROR_INVALID_ID, issues no device call and leaves
\* the cache unchanged
RejectedLocally ==
    /\ lastCode' = UF_ERROR_INVALID_ID
    /\ devCalls' = <<>>
    /\ devStore' = devStore
    /\ CacheUnchanged

\* C7 (as stated) deleteTemplate(id) with id = 0 or id > capacity and
\* enroll(id) with id > capacity return UF_ERROR_INVALID_ID before any device
\* call and leave the occupancy array, the count and the scanned flag
\* unchanged.
C7_OutOfRangeRejected == [][ OutOfRangeCall => RejectedLocally ]_vars

\* C7 (amended) on a facade whose begin() has succeeded, deleteTemplate(id)
\* with id = 0 or id > capacity and enroll(id) with id > capacity return
\* UF_ERROR_INVALID_ID before any device call and leave the occupancy array,
\* the count and the scanned flag unchanged.
C7_OutOfRangeRejectedOnceBegun ==
    [][ (initialized /\ OutOfRangeCall) => RejectedLocally ]_vars

\* an out-of-range deleteTemplate was rejected on an initialized facade
C7_Witness ==
    /\ initialized
    /\ lastOp = "deleteTemplate"
    /\ lastId > capacity
    /\ lastCode = UF_ERROR_INVALID_ID

\* C8 No partial application: whenever enroll, deleteTemplate or
\* clearDatabase returns an outcome other than UF_OK, the cache is exactly as
\* it was before the call.
C8_NoPartialApplication ==
    [][ (nOps' = nOps + 1 /\ lastOp' \in MutatingOps /\ lastCode' # UF_OK)
        => CacheUnchanged ]_vars

\* the type of the cataloged profile with capacity c
ProfileOfCapacity(c) ==
    SENSOR_DB[CHOOSE i \in 1..Len(SENSOR_DB) : SENSOR_DB[i].capacity = c].type

\* the step is a begin() that returns true on a facade constructed with Auto
\* on which no begin() has succeeded before
FirstAutoBegin ==
    Called("begin") /\ lastBool' /\ ctorType = UF_SENSOR_AUTO /\ ~initialized

\* C9 Capacity detection membership: on a newly constructed Auto facade and a
\* probe that accepts exactly the indices <= C, for each cataloged capacity
\* C, begin() selects the profile whose capacity is C and getCapacity() is C.
C9_DetectionMembership ==
    [][ FirstAutoBegin =>
           \A c \in CatalogCaps :
              (devStore = 1..c) =>
                 (capacity' = c /\ sensorType' = ProfileOfCapacity(c)) ]_vars

\* begin() on an Auto facade against a probe accepting exactly the indices
\* <= 1000 selected R307
C9_Witness ==
    /\ ctorType = UF_SENSOR_AUTO
    /\ lastOp = "begin" /\ lastBool /\ nOps = 1
    /\ devStore = 1..1000
    /\ sensorType = UF_SENSOR_R307 /\ capacity = 1000

DetectorInvoked(calls) ==
    \E i \in 1..Len(calls) : calls[i][1] = "getParameters"

\* the catalog capacity of a specific sensor type
CatalogCapacityOf(t) ==
    CASE t = UF_SENSOR_AS608 -> 162
      [] t = UF_SENSOR_R307 -> 1000
      [] t = UF_SENSOR_GT511C3 -> 200
      [] t = UF_SENSOR_ZFM60 -> 300
      [] t = UF_SENSOR_ZFM20 -> 256

\* C11 Configured profile: on a facade constructed with a specific (non-Auto)
\* sensor type, a begin() that returns true never invokes the capability
\* detector, and afterwards getSensorType() is the configured type and
\* getCapacity() is that type's catalog capacity, whatever the probes answer.
C11_ConfiguredProfile ==
    [][ (Called("begin") /\ lastBool' /\ ctorType # UF_SENSOR_AUTO) =>
           /\ ~DetectorInvoked(devCalls')
           /\ sensorType' = ctorType
           /\ capacity' = CatalogCapacityOf(ctorType) ]_vars

\* begin() succeeded on a ZFM-60 facade attached to a module whose probe
\* accepts index 1000
C11_Witness ==
    /\ ctorType = UF_SENSOR_ZFM60
    /\ lastOp = "begin" /\ lastBool
    /\ 1000 \in devStore
    /\ sensorType = UF_SENSOR_ZFM60 /\ capacity = 300

\* C12 Re-invoking begin() on a facade constructed with Auto re-enters
\* detection: every begin() that returns true runs the capability detector,
\* and afterwards getSensorType() and getCapacity() are the profile detected
\* on the module attached at that call.
C12_BeginRedetects ==
    [][ (Called("begin") /\ lastBool' /\ ctorType = UF_SENSOR_AUTO) =>
           LET fresh == ResolveProfile(UF_SENSOR_AUTO, 0, devStore, 0)
           IN  /\ DetectorInvoked(devCalls')
               /\ sensorType' = fresh.sensorType
               /\ capacity' = fresh.capacity ]_vars

\* C13 Handshake failure faults the facade: after a begin() that returned
\* false isInitialized() is false, also when an earlier begin() on the same
\* instance had succeeded.
C13_HandshakeFailureFaults ==
    (lastOp = "begin" /\ ~lastBool) => ~initialized

\* C14 Ready to Faulted: when the transport call of enroll, deleteTemplate or
\* clearDatabase reports a communication error, the facade leaves Ready:
\* isInitialized() is false afterwards.
C14_CommErrorFaults ==
    [][ (/\ nOps' = nOps + 1
         /\ lastOp' \in MutatingOps
         /\ devCalls' # <<>>
         /\ lastCode' = UF_ERROR_COMM) => ~initialized' ]_vars

\* the spec's outcome for a vendor status outside the mapping table
Unknown == "Unknown"

\* the vendor statuses of the model: the mapping table and two outside it
VendorStatuses == CaseLabels \cup {FINGERPRINT_NOTFOUND, FINGERPRINT_UNLISTED}

\* C15 Result normalization is total and maps unknown codes to Unknown:
\* every vendor status converts to an outcome of the taxonomy, and when the
\* status deleteModel or an enrollment step answered is not in the mapping
\* table, the outcome deleteTemplate / enroll returns is Unknown.
C15_NormalizeUnknown ==
    /\ \A v \in VendorStatuses :
          ConvertAdafruitError(v) \in UF_ErrorCode \cup {Unknown}
    /\ (lastOp \in {"enroll", "deleteTemplate"}
           /\ lastVendor \notin CaseLabels \cup {NO_STATUS})
        => lastCode = Unknown

\* the ids at and beyond the bounds of 1..capacity (uint16_t)
BoundaryIds == {0, capacity + 1, capacity + 2, 65535}

\* C16 Boundary rejection: in every reachable state isSlotOccupied(0),
\* isSlotOccupied(capacity + 1) and isSlotOccupied(id) for every id >
\* capacity return false, and no isSlotOccupied call reads an index outside
\* the allocated occupancy array.
C16_BoundaryRejection ==
    /\ \A id \in BoundaryIds : IsSlotOccupied(id) = FALSE
    /\ \A id \in BoundaryIds \cup QueryIds :
          LET reads == IsSlotOccupiedReads(databaseScanned, capacity, id)
          IN  /\ reads \subseteq 0..(capacity - 1)
              /\ reads # {} => allocated

\* the last slot of a scanned cache is occupied and the id after it is
\* reported not occupied
C16_Witness ==
    /\ databaseScanned
    /\ IsSlotOccupied(capacity)
    /\ ~IsSlotOccupied(capacity + 1)
    /\ ~IsSlotOccupied(0)

\* C17 While the cache is not marked scanned, no query reports occupancy
\* data: isSlotOccupied(id) is false for every id, and findEmptySlot(k) and
\* findLastEmptySlot() return 0 for every k.
C17_UnscannedReportsNothing ==
    ~databaseScanned =>
        /\ \A id \in QueryIds : ~IsSlotOccupied(id)
        /\ \A k \in QueryIds : FindEmptySlot(k) = 0
        /\ FindLastEmptySlot = 0

\* an initialized facade with an allocated, unscanned cache
C17_Witness ==
    /\ initialized /\ allocated /\ ~databaseScanned
    /\ capacity > 0
    /\ FindEmptySlot(1) = 0 /\ FindLastEmptySlot = 0

\* the slots of 1..capacity the probes of the step's scan reported a template
\* for: none over a link that is down, the module's slots otherwise
Reported ==
    IF lastVendor' = FINGERPRINT_PACKETRECIEVEERR THEN {}
    ELSE devStore \cap (1..capacity)

C19_ScanReportsCommError ==
    [][ (Called("scanDatabase") /\ initialized
            /\ lastVendor' = FINGERPRINT_PACKETRECIEVEERR)
        => lastInt' < 0 ]_vars

\* the UF_DatabaseStats that describe a cache holding exactly the slots occ
StatsOf(occ) ==
    [totalSlots |-> capacity,
     occupiedSlots |-> Cardinality(occ),
     freeSlots |-> capacity - Cardinality(occ),
     firstFreeSlot |->
        IF \A i \in 1..capacity : i \in occ THEN 0
        ELSE CHOOSE i \in 1..capacity :
                i \notin occ /\ \A j \in 1..(i - 1) : j \in occ,
     lastFreeSlot |->
        IF \A i \in 1..capacity : i \in occ THEN 0
        ELSE CHOOSE i \in 1..capacity :
                i \notin occ /\ \A j \in (i + 1)..capacity : j \in occ]

\* getDatabaseStats() scans exactly once when the cache is not marked
\* scanned, and does nothing to the module or the cache when it is
LazyScan ==
    /\ ~databaseScanned =>
          /\ devCalls' = CallRun("getTemplateCount", 1, capacity)
          /\ databaseScanned'
          /\ slotOccupancy' = Reported
          /\ lastStats' = StatsOf(Reported)
    /\ databaseScanned => (devCalls' = <<>> /\ CacheUnchanged)

C22_EnrollDeleteRoundTrip ==
    [][ (/\ Called("deleteTemplate") /\ lastCode' = UF_OK
         /\ lastOp = "enroll" /\ lastCode = UF_OK /\ lastInt = lastId'
         /\ ~IsSlotOccupiedOp(before.scanned, before.occ, capacity, lastInt))
        => (/\ IsSlotOccupied(lastInt)
            /\ ~IsSlotOccupiedOp(databaseScanned', slotOccupancy', capacity',
                                 lastInt)
            /\ enrolledCount' = before.cnt
            /\ \A j \in (1..capacity) \ {lastInt} :
                  IsSlotOccupiedOp(databaseScanned', slotOccupancy',
                                   capacity', j)
                     = IsSlotOccupiedOp(before.scanned, before.occ, capacity,
                                        j)) ]_vars

\* a successful deleteTemplate(id) followed a successful enroll(id)
C22_Witness ==
    /\ lastOp = "deleteTemplate" /\ lastCode = UF_OK
    /\ before.op = "enroll" /\ before.code = UF_OK /\ before.slot = lastId
    /\ lastId \in before.occ
    /\ ~IsSlotOccupied(lastId)

\* C23 After clearDatabase() returns UF_OK, getEnrolledCount() is 0 and
\* isSlotOccupied(id) is false for every id in 1..capacity; on an
\* initialized facade clearDatabase() returns UF_OK exactly when every
\* deleteModel answered FINGERPRINT_OK or FINGERPRINT_BADLOCATION.
C23_ClearDatabase ==
    [][ Called("clearDatabase") =>
           /\ initialized =>
                 ((lastCode' = UF_OK) <=>
                     (lastCall'.fault[1] \in 1..capacity =>
                        lastCall'.fault[2] \in {FINGERPRINT_OK,
                                                FINGERPRINT_BADLOCATION}))
           /\ (lastCode' = UF_OK) =>
                 /\ enrolledCount' = 0
                 /\ \A id \in 1..capacity :
                       ~IsSlotOccupiedOp(databaseScanned', slotOccupancy',
                                        capacity', id) ]_vars

\* a clearDatabase() in which one deleteModel answered bad-location returned
\* UF_OK on a cache that held a template
C23_Witness ==
    /\ lastOp = "clearDatabase" /\ lastCode = UF_OK
    /\ lastCall.fault[2] = FINGERPRINT_BADLOCATION
    /\ before.occ # {} /\ before.cnt > 0
    /\ enrolledCount = 0

\* the largest id in 1..capacity for which isSlotOccupied is false, 0 when
\* there is none
LargestFree ==
    IF \A id \in 1..capacity : IsSlotOccupied(id) THEN 0
    ELSE CHOOSE id \in 1..capacity :
            ~IsSlotOccupied(id)
               /\ \A j \in (id + 1)..capacity : IsSlotOccupied(j)

\* C24 findLastEmptySlot() on a scanned cache returns the largest id in
\* 1..capacity with isSlotOccupied(id) false, and 0 exactly when every slot
\* is occupied; on an empty database it returns capacity.
C24_FindLastEmptySlot ==
    databaseScanned =>
        /\ FindLastEmptySlot = LargestFree
        /\ (FindLastEmptySlot = 0) <=>
              (\A id \in 1..capacity : IsSlotOccupied(id))
        /\ (enrolledCount = 0 /\ slotOccupancy = {}) =>
              FindLastEmptySlot = capacity

\* on a scanned cache whose last slot is occupied the slot before it is
\* the last empty one
C24_Witness ==
    /\ databaseScanned
    /\ IsSlotOccupied(capacity)
    /\ FindLastEmptySlot = capacity - 1

\* C25 Finger polling in identify: while the device keeps reporting "no
\* finger", identify(timeout) keeps polling; it returns -UF_ERROR_TIMEOUT
\* only once the timeout has elapsed and never returns a no-finger outcome
\* before the timeout expires.
C25_IdentifyPolls ==
    [][ (Called("identify") /\ initialized) =>
           LET expired == lastCapture'.elapsed
                             >= lastCapture'.timeout * MsPerSecond
           IN  /\ (lastCapture'.finger = Steady(FINGERPRINT_NOFINGER)) =>
                     (lastInt' = Negated(UF_ERROR_TIMEOUT) /\ expired)
               /\ (lastInt' = Negated(UF_ERROR_TIMEOUT)) => expired
               /\ (lastInt' = Negated(UF_ERROR_NO_FINGER)) => expired ]_vars

\* C26 identify result encoding: identify returns a value > 0 with the
\* confidence stored only when capture, feature extraction and search all
\* reported OK; returns 0 exactly when the search reported not-found; and
\* returns a strictly negative value whenever the facade is uninitialized,
\* the wait timed out or a device step failed with any other code.
C26_IdentifyEncoding ==
    [][ Called("identify") =>
           LET c == lastCapture'
           IN  /\ (lastInt' > 0) =>
                     /\ initialized
                     /\ Image(c.finger, devCalls'[1][3]) = FINGERPRINT_OK
                     /\ c.tz = FINGERPRINT_OK
                     /\ c.search = FINGERPRINT_OK
                     /\ c.confidence \in Confidences
               /\ (lastInt' = 0) <=> (c.search = FINGERPRINT_NOTFOUND)
               /\ (\/ ~initialized
                   \/ c.tz # FINGERPRINT_OK
                   \/ c.search \notin {FINGERPRINT_OK, FINGERPRINT_NOTFOUND})
                  => lastInt' < 0 ]_vars

\* an identify() that waited for the module matched a stored template and
\* stored the confidence
C26_Witness ==
    /\ lastOp = "identify"
    /\ lastInt > 0 /\ lastInt \in devStore
    /\ lastCapture.confidence = 85
    /\ lastCapture.elapsed > 0

\* C27 isFingerPresent() returns true if and only if the facade is
\* initialized and getImage reports a captured image (FINGERPRINT_OK).
C27_IsFingerPresent ==
    [][ Called("isFingerPresent") =>
           (lastBool' <=> (initialized /\ lastVendor' = FINGERPRINT_OK)) ]_vars

\* C28 Scan-count validation: enroll(id, numScans) with numScans 0 or > 4
\* returns an outcome other than UF_OK before any device call is issued and
\* leaves the cache unchanged.
C28_ScanCountRejected ==
    [][ (Called("enroll") /\ lastCall'.numScans \notin 1..4) =>
           /\ lastCode' # UF_OK
           /\ devCalls' = <<>>
           /\ devStore' = devStore
           /\ CacheUnchanged ]_vars

\* C30 Exactly the affected slot changes: a successful enroll(id) or
\* deleteTemplate(id) changes the cached occupancy of slot id only.
C30_OnlyAffectedSlot ==
    [][ ((Called("enroll") \/ Called("deleteTemplate")) /\ lastCode' = UF_OK)
        => LET slot == IF lastOp' = "enroll" THEN lastInt' ELSE lastId'
           IN  \A j \in (1..capacity) \ {slot} :
                  (j \in slotOccupancy') = (j \in slotOccupancy) ]_vars

\* a successful enroll on a cache that holds another template
C30_Witness ==
    /\ lastOp = "enroll" /\ lastCode = UF_OK
    /\ lastInt \in slotOccupancy
    /\ slotOccupancy \ {lastInt} # {}
    /\ enrolledCount > 1

\* 1 for true, 0 for false
Bit(b) == IF b THEN 1 ELSE 0

\* C21 Idempotence of updateSlot: for every valid id and every value v on an
\* initialized manager, updateSlot(id, v) sets the slot to v and changes the
\* enrolled count by +1, -1 or 0, the difference between the slot's new and
\* previous state; a second updateSlot(id, v) in a row, and any further one,
\* leaves the slot map and the enrolled count exactly as after the first.
C21_UpdateSlotIdempotent ==
    [][ (mmCall'.op = "updateSlot" /\ MMValidateID(mm, mmCall'.id)
            /\ mm.allocated)
        => LET id == mmCall'.id
               v == mmCall'.occupied
               again == UpdateSlotOp(mm', id, v)
           IN  /\ mmCall'.ret
               /\ MMIsSlotOccupied(mm', id) = v
               /\ mm'.slotMap \ {id} = mm.slotMap \ {id}
               /\ mm'.enrolledCount - mm.enrolledCount
                     = Bit(v) - Bit(MMIsSlotOccupied(mm, id))
               /\ mmCall'.repeat =>
                     (mm'.slotMap = mm.slotMap
                        /\ mm'.enrolledCount = mm.enrolledCount)
               /\ again.ret /\ again.mm = mm' ]_vars

\* updateSlot(id, true) was called twice in a row on an initialized manager
\* that holds other templates too
C21_Witness ==
    /\ mmCall.op = "updateSlot" /\ mmCall.ret /\ mmCall.repeat
    /\ mmCall.occupied
    /\ mmCall.id \in mm.slotMap
    /\ mm.enrolledCount > 1
    /\ mmCall.id \notin mm.dev

\* the calls on a facade object
FacadeOps ==
    {"begin", "scanDatabase", "getDatabaseStats", "enroll", "deleteTemplate",
     "clearDatabase"}

DetectionProbes(calls) == [i \in 1..(Len(calls) - 3) |-> calls[i + 3][2]]

\* the cataloged capacities the probe of the module accepts
Accepted == {c \in CatalogCaps : GetTemplateCount(devStore, c) = FINGERPRINT_OK}

\* C31 Detection probe order: for an arbitrary (also non-monotone) probe,
\* the detection of a first successful begin() on an Auto facade probes the
\* cataloged capacities in strictly descending order 1000, 300, 256, 200,
\* 162, stops at the first accepted index and selects that profile: the
\* selected profile is the one with the largest accepted cataloged capacity,
\* no index below the selected capacity is probed, and at most five probes
\* are issued.
C31_ProbeOrder ==
    [][ FirstAutoBegin =>
           LET probes == DetectionProbes(devCalls')
               n == Len(probes)
           IN  /\ devCalls'[3][1] = "getParameters"
               /\ n >= 1 /\ n <= 5
               /\ \A i \in 1..n : devCalls'[i + 3][1] = "getTemplateCount"
               /\ probes[1] = 1000
               /\ \A i \in 1..(n - 1) :
                     /\ probes[i] \notin Accepted
                     /\ probes[i + 1] < probes[i]
                     /\ probes[i + 1] \in CatalogCaps
                     /\ \A c \in CatalogCaps :
                           c < probes[i] => c <= probes[i + 1]
               /\ Accepted # {} =>
                     /\ probes[n] \in Accepted
                     /\ \A c \in Accepted : c <= probes[n]
                     /\ capacity' = probes[n]
                     /\ sensorType' = ProfileOfCapacity(probes[n])
                     /\ \A i \in 1..n : probes[i] >= capacity'
               /\ Accepted = {} => n = 5 ]_vars

\* begin() on an Auto facade whose module accepts the indices 300 and 162 and
\* rejects 1000, 256 and 200 probed 1000 and 300 and selected ZFM-60
C31_Witness ==
    /\ ctorType = UF_SENSOR_AUTO
    /\ lastOp = "begin" /\ lastBool /\ nOps = 1
    /\ devStore = {162, 300}
    /\ DetectionProbes(devCalls) = <<1000, 300>>
    /\ sensorType = UF_SENSOR_ZFM60 /\ capacity = 300

\* the commands of a complete enrollment into `slot`, in order
EnrollmentProtocol(slot) ==
    << Call("getImage", 0), Call("image2Tz", 1), Call("getImage", 0),
       Call("image2Tz", 2), Call("createModel", 0), Call("storeModel", slot) >>

\* the call log holds a storeModel command
StoreIssued(calls) == \E i \in 1..Len(calls) : calls[i][1] = "storeModel"

\* C32 Two-capture enrollment protocol: within enroll, storeModel(id) is
\* issued only after, in this order, a first capture, feature extraction
\* into buffer 1, a second capture, feature extraction into buffer 2 and
\* model creation each returned OK; enroll returns UF_OK and marks the slot
\* occupied only when storeModel itself returned OK; if the second capture
\* never returns OK before its timeout, no storeModel is issued and enroll
\* does not return UF_OK.
C32_EnrollmentProtocol ==
    [][ Called("enroll") =>
           LET script == lastCall'.script
               secondCaptureTimedOut == script = <<3, FINGERPRINT_NOFINGER>>
           IN  /\ StoreIssued(devCalls') =>
                     /\ devCalls' = EnrollmentProtocol(lastInt')
                     /\ script[1] \notin 1..5
               /\ (lastCode' = UF_OK) =>
                     /\ StoreIssued(devCalls')
                     /\ script[1] # 6
               /\ (slotOccupancy' # slotOccupancy) => lastCode' = UF_OK
               /\ (ReachesEnrollment(lastId') /\ secondCaptureTimedOut) =>
                     (~StoreIssued(devCalls') /\ lastCode' # UF_OK) ]_vars

\* C33 The scanned flag becomes true only as the result of a full scan that
\* probed every slot 1..capacity: no enroll, deleteTemplate or other
\* single-slot update turns an unscanned cache into a scanned one.
C33_ScannedOnlyByFullScan ==
    [][ (~databaseScanned /\ databaseScanned') =>
           /\ lastOp' \notin {"enroll", "deleteTemplate"}
           /\ \E i \in 1..Len(devCalls') :
                 devCalls'[i] = <<"getTemplateCount", 1, capacity'>> ]_vars

\* the calls that need a begun facade
GuardedOps ==
    {"enroll", "verify", "deleteTemplate", "clearDatabase", "identify",
     "scanDatabase", "isFingerPresent"}

\* C34 Before any begin() has succeeded on an instance, every operation is
\* rejected without a device call and without a state change: enroll,
\* verify, deleteTemplate and clearDatabase return UF_ERROR_NO_SENSOR,
\* identify returns -UF_ERROR_NO_SENSOR, scanDatabase returns -1,
\* isFingerPresent and isSlotOccupied return false and findEmptySlot
\* returns 0.
C34_UnbegunRejected ==
    /\ [][ (~initialized /\ \E op \in GuardedOps : Called(op)) =>
              /\ devCalls' = <<>>
              /\ This' = This
              /\ lastOp' \in {"enroll", "verify", "deleteTemplate",
                               "clearDatabase"}
                    => lastCode' = UF_ERROR_NO_SENSOR
              /\ lastOp' = "identify" => lastInt' = 0 - 2
              /\ lastOp' = "scanDatabase" => lastInt' = 0 - 1
              /\ lastOp' = "isFingerPresent" => ~lastBool' ]_vars
    /\ [](~initialized =>
             \A id \in QueryIds :
                ~IsSlotOccupied(id) /\ FindEmptySlot(id) = 0)

\* verify was the last of the calls made on an AS608 facade that has not
\* begun
C34_Witness ==
    /\ ~initialized
    /\ lastOp = "verify" /\ lastCode = UF_ERROR_NO_SENSOR
    /\ nOps = MaxOps
    /\ capacity = 162 /\ devStore = {1}

\* C35 Count bounds: in every reachable state of the facade 0 <= occupied
\* count <= capacity, so freeSlots = totalSlots - occupiedSlots in
\* getDatabaseStats never wraps around in 16-bit unsigned arithmetic, and
\* occupiedSlots + freeSlots = totalSlots.
C35_CountBounds ==
    /\ 0 <= enrolledCount /\ enrolledCount <= capacity
    /\ LET st == GetDatabaseStats
       IN  /\ st.occupiedSlots <= st.totalSlots
           /\ st.freeSlots = st.totalSlots - st.occupiedSlots
           /\ st.occupiedSlots + st.freeSlots = st.totalSlots

\* a scanned cache with every slot occupied, after an enroll that was turned
\* down: the count is the capacity and no slot is free
C35_Witness ==
    /\ initialized /\ databaseScanned
    /\ lastOp = "enroll" /\ lastCode = UF_ERROR_DUPLICATE_ID
    /\ enrolledCount = capacity
    /\ GetDatabaseStats.freeSlots = 0

\* the number of ids in 1..capacity for which isSlotOccupied(id) is false, in
\* a cache with the given fields
FreeAnswers(scanned, occ, cap) ==
    Cardinality({id \in 1..cap : ~IsSlotOccupiedOp(scanned, occ, cap, id)})

\* C36 Statistics are self-consistent: in every state reachable after a
\* successful begin(), the record returned by getDatabaseStats satisfies
\* freeSlots = number of ids in 1..capacity with isSlotOccupied(id) false,
\* firstFreeSlot = 0 if and only if freeSlots = 0, lastFreeSlot = 0 if and
\* only if freeSlots = 0, and firstFreeSlot <= lastFreeSlot when both are
\* nonzero.
C36_StatsSelfConsistent ==
    initialized =>
        LET st == GetDatabaseStats
        IN  /\ st.freeSlots = FreeAnswers(st.scanned, st.occ, capacity)
            /\ (st.firstFreeSlot = 0) <=> (st.freeSlots = 0)
            /\ (st.lastFreeSlot = 0) <=> (st.freeSlots = 0)
            /\ (st.firstFreeSlot # 0 /\ st.lastFreeSlot # 0)
                  => st.firstFreeSlot <= st.lastFreeSlot

\* C37 The result translator returns UF_OK if and only if the vendor code is
\* FINGERPRINT_OK: no failure code, listed or unlisted, is normalized to
\* UF_OK, so an enroll or deleteTemplate whose last device command reported
\* a failure does not return UF_OK and leaves the cache as it was.
C37_OnlyOkIsSuccess ==
    /\ [](\A v \in VendorStatuses :
             (ConvertAdafruitError(v) = UF_OK) <=> (v = FINGERPRINT_OK))
    /\ [][ ((Called("enroll") \/ Called("deleteTemplate"))
               /\ lastVendor' \notin {FINGERPRINT_OK, NO_STATUS})
           => (lastCode' # UF_OK /\ CacheUnchanged) ]_vars

\* deleteModel answered an unlisted status for a slot the cache holds: the
\* call failed and the slot is still marked
C37_Witness ==
    /\ lastOp = "deleteTemplate"
    /\ lastVendor = FINGERPRINT_UNLISTED
    /\ lastCode # UF_OK
    /\ databaseScanned /\ lastId \in slotOccupancy
    /\ enrolledCount = Cardinality(slotOccupancy)

\* C38 UF_MemoryManager count invariant: after a successful init() and any
\* sequence of updateSlot and scanAllSlots calls (with valid or invalid
\* ids), getEnrolledCount() equals the number of true entries in the slot
\* map, getStatistics reports occupied + free = total, and updateSlot with
\* an id outside 1..capacity returns false and changes nothing.
C38_ManagerCount ==
    /\ [](mm.allocated =>
             /\ MMGetEnrolledCount(mm) = Cardinality(mm.slotMap)
             /\ mm.slotMap \subseteq 1..mm.capacity
             /\ LET st == MMGetStatistics(mm)
                IN  st.occupied + st.free = st.total)
    /\ [][ (mmCall'.op = "updateSlot" /\ mmCall'.id \notin 1..mm.capacity)
           => (~mmCall'.ret /\ mm' = mm) ]_vars

\* updateSlot with the id past the last slot was turned down by an
\* initialized manager that holds templates
C38_Witness ==
    /\ mm.allocated
    /\ mmCall.op = "updateSlot" /\ ~mmCall.ret
    /\ mmCall.id = mm.capacity + 1
    /\ mm.enrolledCount = 2 /\ Cardinality(mm.slotMap) = 2

\* an occupied slot lies above an empty one
Fragmented(m) ==
    \E i \in 1..m.capacity, j \in 1..m.capacity :
       i < j /\ ~MMIsSlotOccupied(m, i) /\ MMIsSlotOccupied(m, j)

\* C39 UF_MemoryManager::defragment() returns true exactly when the database
\* is not fragmented, the occupied slots forming a prefix 1..n (the
\* completely empty and the completely full database included), and false
\* exactly when an occupied slot lies above an empty one; it never changes
\* the slot map or the count.
C39_Defragment ==
    [][ mmCall'.op = "defragment" =>
           /\ mmCall'.ret <=> ~Fragmented(mm)
           /\ mm' = mm ]_vars

====
